---- MODULE Spec2Model ----
(***************************************************************************)
(* Semantic graph of the architectural analyzer: the in-memory Graph with  *)
(* its two adjacency indexes (internal/vibecoder/graph/graph.go), the      *)
(* SQLite Store it writes through to (internal/hexanorm/store/sqlite.go)   *)
(* and the Analyzer that fills the graph and derives violations from it    *)
(* (package analysis).                                                     *)
(*                                                                         *)
(* An identifier (node id, file path, import string) is the sequence of    *)
(* its "/"-separated segments: "src/domain/a.ts" is                        *)
(* <<"src", "domain", "a.ts">>.  A Go map is a function whose DOMAIN is    *)
(* the set of keys present.                                                *)
(***************************************************************************)
EXTENDS Integers, Sequences, FiniteSets, TLC

VARIABLES
    nodes,          \* Graph.nodes: id -> node
    edges,          \* Graph.edges: source id -> sequence of edges
    reverseEdges,   \* Graph.reverseEdges: target id -> sequence of edges
    store,          \* rows of the tables nodes and edges of the Store
    mu,             \* Graph.mu: the task holding the exclusive lock, or NoTask
    pc,             \* position of each task inside a Graph method
    pending,        \* the call each task is executing
    files,          \* the file tree as the Analyzer has been told of it
    disk,           \* the file tree as it is: path -> content
    events,         \* fsnotify.Watcher.Events and Errors, and the loop reading them
    lastOp          \* the operation that returned last, with its result

vars == <<nodes, edges, reverseEdges, store, mu, pc, pending, files, disk, events,
         lastOp>>

----------------------------------------------------------------------------
(* domain: node kinds, edge types, severities                              *)

NodeKindCode == "Code"
NodeKindRequirement == "Requirement"
NodeKindFeature == "Feature"
NodeKindTest == "Test"
NodeKindGherkinFeature == "GherkinFeature"
NodeKindGherkinScenario == "GherkinScenario"
NodeKindStepDefinition == "StepDefinition"

EdgeTypeDefines == "DEFINES"
EdgeTypeImplementedBy == "IMPLEMENTED_BY"
EdgeTypeVerifies == "VERIFIES"
EdgeTypeExecutes == "EXECUTES"
EdgeTypeCalls == "CALLS"
EdgeTypeDescribedBy == "DESCRIBED_BY"
EdgeTypeImports == "IMPORTS"

SeverityCritical == "CRITICAL"
SeverityWarning == "WARNING"
ViolationKindArchLayer == "ARCH_LAYER_VIOLATION"
ViolationKindBDDDrift == "BDD_DRIFT"

\* domain.Edge
Edge(sourceID, targetID, edgeType) ==
    [SourceID |-> sourceID, TargetID |-> targetID, Type |-> edgeType]

----------------------------------------------------------------------------
(* Go values held in the open maps Properties and Metadata                 *)

StrV(s) == [t |-> "string", s |-> s, n |-> 0, l |-> <<>>]
IntV(n) == [t |-> "int", s |-> "", n |-> n, l |-> <<>>]
FloatV(n) == [t |-> "float64", s |-> "", n |-> n, l |-> <<>>]
\* a string whose text is a path or a digest, held as the sequence it stands for
TextV(text) == [t |-> "string", s |-> "", n |-> 0, l |-> text]
\* a []string, and the []interface{} that decoding a JSON array gives
StringsV(list) == [t |-> "[]string", s |-> "", n |-> 0, l |-> list]
ListV(list) == [t |-> "[]interface{}", s |-> "", n |-> 0, l |-> list]

\* map[string]interface{}: the nil map, or the keys present with their values
NilMap == [nil |-> TRUE, kv |-> [k \in {} |-> k]]
MapOf(kv) == [nil |-> FALSE, kv |-> kv]

\* domain.Node
Node(id, kind, properties, metadata) ==
    [ID |-> id, Kind |-> kind, Properties |-> properties, Metadata |-> metadata]

----------------------------------------------------------------------------
(* Go maps and slices                                                      *)

EmptyMap == [k \in {} |-> k]
Get(m, k) == IF k \in DOMAIN m THEN m[k] ELSE <<>>
Put(m, k, v) == [x \in (DOMAIN m) \cup {k} |-> IF x = k THEN v ELSE m[x]]
Del(m, k) == [x \in (DOMAIN m) \ {k} |-> m[x]]

SeqToSet(s) == {s[i] : i \in 1..Len(s)}

\* every sequence that lists the elements of S once each
RECURSIVE Orderings(_)
Orderings(S) ==
    IF S = {} THEN {<<>>}
    ELSE UNION {{<<x>> \o rest : rest \in Orderings(S \ {x})} : x \in S}

----------------------------------------------------------------------------
(* Store: the tables nodes(id, kind, properties, metadata) and             *)
(* edges(source_id, target_id, type), the two open maps kept as JSON text  *)

\* encoding/json on one value: a Go string is a JSON string, a slice of strings
\* a JSON array, every Go number a JSON number
JsonOf(v) ==
    CASE v.t = "string" -> [j |-> "string", s |-> v.s, n |-> 0, l |-> v.l]
      [] v.t \in {"[]string", "[]interface{}"} -> [j |-> "array", s |-> "", n |-> 0, l |-> v.l]
      [] OTHER -> [j |-> "number", s |-> "", n |-> v.n, l |-> <<>>]

\* decoding into interface{}: a JSON string is a Go string, a JSON array a
\* []interface{}, a JSON number a float64
GoOf(js) ==
    CASE js.j = "string" -> [t |-> "string", s |-> js.s, n |-> 0, l |-> js.l]
      [] js.j = "array" -> ListV(js.l)
      [] OTHER -> FloatV(js.n)

\* json.Marshal of a map[string]interface{}: the text null for the nil map
Marshal(m) ==
    IF m.nil THEN [null |-> TRUE, obj |-> EmptyMap]
             ELSE [null |-> FALSE, obj |-> [k \in DOMAIN m.kv |-> JsonOf(m.kv[k])]]

\* json.Unmarshal into the nil map field of a fresh node: null leaves it nil
Unmarshal(text) ==
    IF text.null THEN NilMap
                 ELSE MapOf([k \in DOMAIN text.obj |-> GoOf(text.obj[k])])

EmptyStore(present) == [present |-> present, nodes |-> EmptyMap, edges |-> {}]

\* Store.SaveNode: upsert by id; ok = FALSE is an Exec that returned an error
SaveNode(s, node, ok) ==
    IF ok
    THEN [s EXCEPT !.nodes = Put(@, node.ID,
              [kind |-> node.Kind,
               properties |-> Marshal(node.Properties),
               metadata |-> Marshal(node.Metadata)])]
    ELSE s

\* DeleteNode with the edge rows deleted by source_id alone
DeleteNode_SourceOnly(s, id, ok) ==
    IF ok
    THEN [s EXCEPT !.nodes = Del(@, id),
                   !.edges = {e \in @ : e.SourceID # id}]
    ELSE s

\* the statements of DeleteNode, in order; a failure is named by the statement
\* that returns the error
NoFailure == "none"
TxSteps == <<"Begin", "DeleteNodeRow", "DeleteEdgeRows", "Commit">>
Failures == {TxSteps[i] : i \in 1..Len(TxSteps)}

\* s.db.Begin(): the transaction works on the rows as they are
Begin(s) == [base |-> s, work |-> s]

\* tx.Exec of one of the two DELETE statements
Exec(tx, statement, id) ==
    CASE statement = "DeleteNodeRow" -> [tx EXCEPT !.work.nodes = Del(@, id)]
      [] statement = "DeleteEdgeRows" ->
             [tx EXCEPT !.work.edges = {e \in @ : e.SourceID # id /\ e.TargetID # id}]
      [] OTHER -> tx

\* a rollback that keeps what the statements before the failure have done
Rollback_Keep(tx) == tx.work

\* tx.Rollback(), deferred: the rows are those of before Begin
Rollback(tx) == tx.base

\* tx.Commit()
Commit(tx) == tx.work

\* the statements of the transaction up to the one that fails
RECURSIVE RunTx(_, _, _, _)
RunTx(tx, steps, id, failAt) ==
    IF steps = <<>> THEN Commit(tx)
    ELSE IF Head(steps) = failAt THEN Rollback(tx)
    ELSE RunTx(Exec(tx, Head(steps), id), Tail(steps), id, failAt)

\* Store.DeleteNode with the outcome of each of its statements given
DeleteNodeTx(s, id, failAt) ==
    IF failAt = "Begin" THEN s ELSE RunTx(Begin(s), Tail(TxSteps), id, failAt)

\* Store.DeleteNode: one transaction deleting the node row and every edge row
\* with the id as source or target; ok tells whether it returns nil
DeleteNode(s, id, ok) == DeleteNodeTx(s, id, IF ok THEN NoFailure ELSE "Commit")

\* Store.SaveEdge: INSERT OR IGNORE on the primary key (source, target, type)
SaveEdge(s, edge, ok) ==
    IF ok THEN [s EXCEPT !.edges = @ \cup {edge}] ELSE s

\* Store.LoadAll: every node row decoded, and the edge rows in the order the
\* query returns them (edgeOrder: any order, SELECT has no ORDER BY)
LoadAll(s, edgeOrder) ==
    [nodes |-> [id \in DOMAIN s.nodes |->
                   Node(id, s.nodes[id].kind,
                        Unmarshal(s.nodes[id].properties),
                        Unmarshal(s.nodes[id].metadata))],
     edges |-> edgeOrder]

----------------------------------------------------------------------------
(* Graph: a value g = [nodes, edges, reverseEdges, store, calls] is the    *)
(* Graph's fields with the Store behind it; calls lists the Store methods  *)
(* the running Graph method has called                                     *)

GraphState(n, e, r, s) ==
    [nodes |-> n, edges |-> e, reverseEdges |-> r, store |-> s, calls |-> <<>>]

\* the Store call of a Graph method: made only when g.store != nil
StoreCall(g, name, newStore) ==
    IF g.store.present
    THEN [g EXCEPT !.store = newStore, !.calls = Append(@, name)]
    ELSE g

\* Graph.addEdgeInternal, the duplicate scan over the forward bucket
HasEdge(g, edge) ==
    \E i \in 1..Len(Get(g.edges, edge.SourceID)) :
        /\ Get(g.edges, edge.SourceID)[i].TargetID = edge.TargetID
        /\ Get(g.edges, edge.SourceID)[i].Type = edge.Type

\* Graph.addEdgeInternal, the two appends
AppendEdge(g, edge) ==
    [g EXCEPT !.edges = Put(@, edge.SourceID, Append(Get(@, edge.SourceID), edge)),
              !.reverseEdges = Put(@, edge.TargetID, Append(Get(@, edge.TargetID), edge))]

\* Graph.addEdgeInternal: [g |-> the graph after it, added |-> its result]
addEdgeInternal(g, edge) ==
    IF HasEdge(g, edge) THEN [g |-> g, added |-> FALSE]
                        ELSE [g |-> AppendEdge(g, edge), added |-> TRUE]

\* Graph.AddEdge, the body run under the exclusive lock
GraphAddEdge(g, sourceID, targetID, edgeType, ok) ==
    LET edge == Edge(sourceID, targetID, edgeType)
        r == addEdgeInternal(g, edge)
    IN  IF r.added THEN StoreCall(r.g, "SaveEdge", SaveEdge(r.g.store, edge, ok))
                   ELSE r.g

\* AddNode dropping the edges that leave the id it overwrites
GraphAddNode_Replace(g, node, ok) ==
    StoreCall([g EXCEPT !.nodes = Put(@, node.ID, node), !.edges = Del(@, node.ID)],
              "SaveNode", SaveNode(g.store, node, ok))

\* Graph.AddNode, the body run under the exclusive lock
GraphAddNode(g, node, ok) ==
    StoreCall([g EXCEPT !.nodes = Put(@, node.ID, node)],
              "SaveNode", SaveNode(g.store, node, ok))

\* removeForwardEdge comparing the wrong end of each edge with targetID
removeForwardEdge_WrongEnd(fwd, sourceID, targetID) ==
    LET newEdges == SelectSeq(Get(fwd, sourceID), LAMBDA e : e.SourceID # targetID)
    IN  IF Len(newEdges) = 0 THEN Del(fwd, sourceID) ELSE Put(fwd, sourceID, newEdges)

\* Graph.removeForwardEdge
removeForwardEdge(fwd, sourceID, targetID) ==
    LET newEdges == SelectSeq(Get(fwd, sourceID), LAMBDA e : e.TargetID # targetID)
    IN  IF Len(newEdges) = 0 THEN Del(fwd, sourceID) ELSE Put(fwd, sourceID, newEdges)

\* removeReverseEdge comparing the target of each edge, not its source
removeReverseEdge_WrongEnd(rev, targetID, sourceID) ==
    LET newEdges == SelectSeq(Get(rev, targetID), LAMBDA e : e.TargetID # sourceID)
    IN  IF Len(newEdges) = 0 THEN Del(rev, targetID) ELSE Put(rev, targetID, newEdges)

\* Graph.removeReverseEdge
removeReverseEdge(rev, targetID, sourceID) ==
    LET newEdges == SelectSeq(Get(rev, targetID), LAMBDA e : e.SourceID # sourceID)
    IN  IF Len(newEdges) = 0 THEN Del(rev, targetID) ELSE Put(rev, targetID, newEdges)

\* Graph.RemoveNode, the loop over the outgoing edges of id
RECURSIVE RemoveOutgoing(_, _, _)
RemoveOutgoing(rev, outgoing, id) ==
    IF outgoing = <<>> THEN rev
    ELSE RemoveOutgoing(removeReverseEdge(rev, Head(outgoing).TargetID, id),
                        Tail(outgoing), id)

\* Graph.RemoveNode, the loop over the incoming edges of id
RECURSIVE RemoveIncoming(_, _, _)
RemoveIncoming(fwd, incoming, id) ==
    IF incoming = <<>> THEN fwd
    ELSE RemoveIncoming(removeForwardEdge(fwd, Head(incoming).SourceID, id),
                        Tail(incoming), id)

\* RemoveNode without its early return
NodeExists_Always(g, id) == TRUE

\* Graph.RemoveNode, the guard of its early return
NodeExists(g, id) == id \in DOMAIN g.nodes

\* Graph.RemoveNode, the body run under the exclusive lock
GraphRemoveNode(g, id, ok) ==
    IF ~NodeExists(g, id) THEN g
    ELSE LET rev1 == IF id \in DOMAIN g.edges
                     THEN RemoveOutgoing(g.reverseEdges, g.edges[id], id)
                     ELSE g.reverseEdges
             fwd1 == Del(g.edges, id)
             fwd2 == IF id \in DOMAIN rev1
                     THEN RemoveIncoming(fwd1, rev1[id], id)
                     ELSE fwd1
             rev2 == Del(rev1, id)
         IN  StoreCall([g EXCEPT !.nodes = Del(@, id),
                                 !.edges = fwd2,
                                 !.reverseEdges = rev2],
                       "DeleteNode", DeleteNode(g.store, id, ok))

\* Graph.loadFromStore, the loop re-inserting the loaded edges
RECURSIVE LoadEdges(_, _)
LoadEdges(g, loaded) ==
    IF loaded = <<>> THEN g
    ELSE LoadEdges(addEdgeInternal(g, Head(loaded)).g, Tail(loaded))

\* NewGraph(s): empty tables, then loadFromStore when a Store is given
NewGraph(s, edgeOrder) ==
    LET g0 == GraphState(EmptyMap, EmptyMap, EmptyMap, s)
    IN  IF s.present
        THEN LET all == LoadAll(s, edgeOrder)
             IN  [LoadEdges([g0 EXCEPT !.nodes = all.nodes], all.edges)
                    EXCEPT !.calls = <<"LoadAll">>]
        ELSE g0

\* Graph.Clear: the three tables emptied, the Store left as it is
GraphClear(g) ==
    [g EXCEPT !.nodes = EmptyMap, !.edges = EmptyMap, !.reverseEdges = EmptyMap]

----------------------------------------------------------------------------
(* Graph.BlastRadius: reverse breadth-first search                         *)

\* the edge-type test of the search: an open definition for the properties
IsImpactKind(edgeType) ==
    edgeType \in {EdgeTypeImplementedBy, EdgeTypeDefines, EdgeTypeCalls}

\* the search following every edge type
IsImpactEdge_Any(edgeType) == TRUE

\* the edge types the search follows
IsImpactEdge(edgeType) ==
    \/ edgeType = EdgeTypeImplementedBy
    \/ edgeType = EdgeTypeDefines
    \/ edgeType = EdgeTypeCalls

\* the body of the loop over the reverse edges of the dequeued id;
\* st = [queue, visited, impactedFeatures, impactedRequirements]
VisitEdge(g, st, edge) ==
    IF edge.SourceID \in st.visited THEN st
    ELSE IF edge.SourceID \notin DOMAIN g.nodes THEN st
    ELSE IF IsImpactEdge(edge.Type)
         THEN LET sourceNode == g.nodes[edge.SourceID]
              IN  [queue |-> Append(st.queue, edge.SourceID),
                   visited |-> st.visited \cup {edge.SourceID},
                   impactedFeatures |->
                       IF sourceNode.Kind = NodeKindFeature
                       THEN st.impactedFeatures \cup {sourceNode.ID}
                       ELSE st.impactedFeatures,
                   impactedRequirements |->
                       IF sourceNode.Kind = NodeKindRequirement
                       THEN st.impactedRequirements \cup {sourceNode.ID}
                       ELSE st.impactedRequirements]
         ELSE st

RECURSIVE VisitEdges(_, _, _)
VisitEdges(g, st, bucket) ==
    IF bucket = <<>> THEN st
    ELSE VisitEdges(g, VisitEdge(g, st, Head(bucket)), Tail(bucket))

\* the loop "for len(queue) > 0"
RECURSIVE Traverse(_, _)
Traverse(g, st) ==
    IF st.queue = <<>> THEN st
    ELSE Traverse(g, VisitEdges(g, [st EXCEPT !.queue = Tail(@)],
                                Get(g.reverseEdges, Head(st.queue))))

\* Graph.BlastRadius: the two sets whose keys become the returned lists
BlastRadius(g, codeID) ==
    Traverse(g, [queue |-> <<codeID>>, visited |-> {codeID},
                 impactedFeatures |-> {}, impactedRequirements |-> {}])

----------------------------------------------------------------------------
(* The state machine.  Every mutator of the Graph runs from Lock to the    *)
(* deferred Unlock as one step of the task that holds mu; a reader runs    *)
(* under RLock, which excludes the holder of the exclusive lock.           *)

NoTask == "none"

\* the channels of a Watcher that has sent nothing, its loop not started
NoEvents == [queue |-> <<>>, errors |-> 0, closed |-> FALSE, loop |-> "none",
             last |-> EmptyMap, sent |-> 0]
Tasks == {"t1", "t2"}

NoId == <<>>
NoEdge == Edge(NoId, NoId, "")
NoNode == Node(NoId, "", NilMap, NilMap)
NoCall == [op |-> "", id |-> NoId, node |-> NoNode, edge |-> NoEdge]
NoRes == [features |-> <<>>, requirements |-> <<>>, violations |-> <<>>]

\* Graph.mu.Lock without the wait for the holder
CanLock_Always(holder) == TRUE

\* Graph.mu.Lock and RLock proceed when no task holds the exclusive lock
CanLock(holder) == holder = NoTask

\* the record of a call that has returned: acted is FALSE when the method took
\* its early return (RemoveNode of an absent id, AddEdge of a known triple)
Returned(op, id, acted, calls, res) ==
    [op |-> op, id |-> id, acted |-> acted, calls |-> calls, res |-> res]

\* the Graph as it stands
Cur == GraphState(nodes, edges, reverseEdges, store)

Install(g) ==
    /\ nodes' = g.nodes
    /\ edges' = g.edges
    /\ reverseEdges' = g.reverseEdges
    /\ store' = g.store

\* number of edges held in the forward index
RECURSIVE NumEdges(_)
NumEdges(fwd) ==
    IF DOMAIN fwd = {} THEN 0
    ELSE LET k == CHOOSE x \in DOMAIN fwd : TRUE
         IN  Len(fwd[k]) + NumEdges(Del(fwd, k))

\* bound of the model: edges held in memory, and edge rows held in the Store
MaxEdges == 2

CanAddEdge(edge) ==
    \/ HasEdge(Cur, edge)
    \/ NumEdges(edges) < MaxEdges /\ Cardinality(store.edges) < MaxEdges

\* Graph.AddNode
AddNode(node, ok) ==
    /\ CanLock(mu)
    /\ \E g \in {GraphAddNode(Cur, node, ok)} :
           /\ Install(g)
           /\ lastOp' = Returned("AddNode", NoId, TRUE, g.calls, NoRes)
    /\ UNCHANGED <<mu, pc, pending, files, disk, events>>

\* Graph.AddEdge
AddEdge(sourceID, targetID, edgeType, ok) ==
    /\ CanLock(mu)
    /\ CanAddEdge(Edge(sourceID, targetID, edgeType))
    /\ \E g \in {GraphAddEdge(Cur, sourceID, targetID, edgeType, ok)} :
           /\ Install(g)
           /\ lastOp' = Returned("AddEdge", NoId,
                                 ~HasEdge(Cur, Edge(sourceID, targetID, edgeType)),
                                 g.calls, NoRes)
    /\ UNCHANGED <<mu, pc, pending, files, disk, events>>

\* Graph.RemoveNode
RemoveNode(id, ok) ==
    /\ CanLock(mu)
    /\ \E g \in {GraphRemoveNode(Cur, id, ok)} :
           /\ Install(g)
           /\ lastOp' = Returned("RemoveNode", id, NodeExists(Cur, id), g.calls, NoRes)
    /\ UNCHANGED <<mu, pc, pending, files, disk, events>>

\* Graph.BlastRadius: the keys of the two sets, in the order the map ranges give
BlastRadiusQuery(codeID) ==
    /\ CanLock(mu)
    /\ \E r \in {BlastRadius(Cur, codeID)} :
         \E fs \in Orderings(r.impactedFeatures), rs \in Orderings(r.impactedRequirements) :
               lastOp' = Returned("BlastRadius", codeID, TRUE, <<>>,
                                  [NoRes EXCEPT !.features = fs, !.requirements = rs])
    /\ UNCHANGED <<nodes, edges, reverseEdges, store, mu, pc, pending, files, disk, events>>

\* Store.Close, NewStore on the same directory, NewGraph on it
Reopen ==
    /\ CanLock(mu)
    /\ \A t \in Tasks : pc[t] = "idle"
    /\ store.present
    /\ \E edgeOrder \in Orderings(store.edges) :
         \E g \in {NewGraph(store, edgeOrder)} :
               /\ Install(g)
               /\ lastOp' = Returned("NewGraph", NoId, TRUE, g.calls, NoRes)
    /\ UNCHANGED <<mu, pc, pending, files, disk, events>>

\* Graph.Clear
Clear ==
    /\ CanLock(mu)
    /\ Install(GraphClear(Cur))
    /\ lastOp' = Returned("Clear", NoId, TRUE, <<>>, NoRes)
    /\ UNCHANGED <<mu, pc, pending, files, disk, events>>

\* NewGraph on the Store of a fresh directory (present), or NewGraph(nil)
InitGraph(present) ==
    /\ nodes = EmptyMap
    /\ edges = EmptyMap
    /\ reverseEdges = EmptyMap
    /\ store = EmptyStore(present)
    /\ mu = NoTask
    /\ pc = [t \in Tasks |-> "idle"]
    /\ pending = [t \in Tasks |-> NoCall]
    /\ files = EmptyMap
    /\ disk = EmptyMap
    /\ events = NoEvents
    /\ lastOp = Returned("NewGraph", NoId, TRUE,
                         IF present THEN <<"LoadAll">> ELSE <<>>, NoRes)

----------------------------------------------------------------------------
(* Spec: a Store-backed Graph under sequences of NewGraph, AddNode,        *)
(* AddEdge and RemoveNode, every Store write succeeding                    *)

Ids == {<<"n1">>, <<"n2">>, <<"n3">>}

NodeInputs ==
    {Node(<<"n1">>, NodeKindCode, NilMap, MapOf([foo |-> StrV("bar")])),
     Node(<<"n2">>, NodeKindStepDefinition,
          MapOf([function_name |-> StrV("step"), line |-> IntV(3)]), NilMap),
     Node(<<"n3">>, NodeKindRequirement,
          MapOf([title |-> StrV("Manually Linked Requirement")]), NilMap)}

EdgeTypes == {EdgeTypeImports, EdgeTypeImplementedBy}

\* the ids edges leave from and the ids they lead to: n1 is never a target, n3
\* never a source, n2 both and the end of a self-loop
EdgeSources == {<<"n1">>, <<"n2">>}
EdgeTargets == {<<"n2">>, <<"n3">>}

Init == InitGraph(TRUE)

Next ==
    \/ \E node \in NodeInputs : AddNode(node, TRUE)
    \/ \E s \in EdgeSources, t \in EdgeTargets, ty \in EdgeTypes : AddEdge(s, t, ty, TRUE)
    \/ \E id \in Ids : RemoveNode(id, TRUE)
    \/ Reopen

Spec == Init /\ [][Next]_vars

----------------------------------------------------------------------------
(* SpecBlast: impact queries on graphs built without a Store               *)

BlastIds == {<<"file:code">>, <<"feat:F">>, <<"req:R">>}

BlastNodeInputs ==
    {Node(<<"file:code">>, NodeKindCode, NilMap, NilMap),
     Node(<<"feat:F">>, NodeKindFeature, NilMap, NilMap),
     Node(<<"req:R">>, NodeKindRequirement, NilMap, NilMap)}

BlastEdgeTypes == {EdgeTypeImplementedBy, EdgeTypeCalls, EdgeTypeImports}

InitBlast == InitGraph(FALSE)

NextBlast ==
    \/ \E node \in BlastNodeInputs : AddNode(node, TRUE)
    \/ \E s \in BlastIds, ty \in BlastEdgeTypes : \E t \in BlastIds \ {s} : AddEdge(s, t, ty, TRUE)
    \/ \E id \in BlastIds : BlastRadiusQuery(id)

SpecBlast == InitBlast /\ [][NextBlast]_vars

----------------------------------------------------------------------------
(* SpecLock: two tasks calling AddEdge at once, AddEdge taken statement by  *)
(* statement: Lock, the duplicate scan, the appends with SaveEdge and the   *)
(* deferred Unlock                                                          *)

\* AddEdge: g.mu.Lock() and the construction of the edge
AddEdgeLock(t, sourceID, targetID, edgeType) ==
    /\ pc[t] = "idle"
    /\ CanLock(mu)
    /\ CanAddEdge(Edge(sourceID, targetID, edgeType))
    /\ mu' = t
    /\ pc' = [pc EXCEPT ![t] = "scan"]
    /\ pending' = [pending EXCEPT ![t] =
                      [NoCall EXCEPT !.op = "AddEdge",
                                     !.edge = Edge(sourceID, targetID, edgeType)]]
    /\ UNCHANGED <<nodes, edges, reverseEdges, store, files, disk, events, lastOp>>

\* addEdgeInternal: the scan; a known triple returns false and AddEdge returns
AddEdgeScan(t) ==
    /\ pc[t] = "scan"
    /\ IF HasEdge(Cur, pending[t].edge)
       THEN /\ pc' = [pc EXCEPT ![t] = "idle"]
            /\ pending' = [pending EXCEPT ![t] = NoCall]
            /\ mu' = NoTask
            /\ lastOp' = Returned("AddEdge", NoId, FALSE, <<>>, NoRes)
       ELSE /\ pc' = [pc EXCEPT ![t] = "append"]
            /\ UNCHANGED <<pending, mu, lastOp>>
    /\ UNCHANGED <<nodes, edges, reverseEdges, store, files, disk, events>>

\* addEdgeInternal: the appends; then SaveEdge and the deferred Unlock
AddEdgeAppend(t) ==
    /\ pc[t] = "append"
    /\ \E g \in {StoreCall(AppendEdge(Cur, pending[t].edge), "SaveEdge",
                           SaveEdge(store, pending[t].edge, TRUE))} :
           /\ Install(g)
           /\ lastOp' = Returned("AddEdge", NoId, TRUE, g.calls, NoRes)
    /\ pc' = [pc EXCEPT ![t] = "idle"]
    /\ pending' = [pending EXCEPT ![t] = NoCall]
    /\ mu' = NoTask
    /\ UNCHANGED <<files, disk, events>>

LockIds == {<<"n1">>, <<"n2">>}

LockNodeInputs ==
    {Node(<<"n1">>, NodeKindCode, NilMap, NilMap),
     Node(<<"n2">>, NodeKindCode, NilMap, NilMap)}

NextLock ==
    \/ \E t \in Tasks, s \in LockIds, tg \in LockIds, ty \in EdgeTypes :
           AddEdgeLock(t, s, tg, ty)
    \/ \E t \in Tasks : AddEdgeScan(t)
    \/ \E t \in Tasks : AddEdgeAppend(t)
    \/ \E node \in LockNodeInputs : AddNode(node, TRUE)
    \/ \E id \in LockIds : RemoveNode(id, TRUE)

SpecLock == Init /\ [][NextLock]_vars

----------------------------------------------------------------------------
(* SpecStore: two tasks calling AddNode, AddEdge and RemoveNode at once,   *)
(* each call taken in three steps: Lock, the change of the tables in       *)
(* memory, and the Store call followed by the deferred Unlock              *)

\* a lock given up before the Store is called
Unlocks_Early(at) == at = "mem"

\* defer g.mu.Unlock(): the lock is held until the method returns, the Store
\* call made
Unlocks(at) == at = "store"

\* g.mu.Unlock() by task t when it is due at this stage
Release(t, at) == IF Unlocks(at) /\ mu = t THEN NoTask ELSE mu

\* the tables in memory after the call, the Store left aside
InMemory(g, call) ==
    LET m == [g EXCEPT !.store = EmptyStore(FALSE)]
    IN  CASE call.op = "AddNode" -> GraphAddNode(m, call.node, TRUE)
          [] call.op = "AddEdge" ->
                 GraphAddEdge(m, call.edge.SourceID, call.edge.TargetID, call.edge.Type, TRUE)
          [] OTHER -> GraphRemoveNode(m, call.id, TRUE)

\* the method returns before its Store call: AddEdge of a known triple,
\* RemoveNode of an absent id, any method of a Graph without Store
ReturnsEarly(g, call) ==
    \/ ~g.store.present
    \/ call.op = "AddEdge" /\ HasEdge(g, call.edge)
    \/ call.op = "RemoveNode" /\ ~NodeExists(g, call.id)

\* the Store method of the call, and the Store after it
StoreMethod(call) ==
    CASE call.op = "AddNode" -> "SaveNode"
      [] call.op = "AddEdge" -> "SaveEdge"
      [] OTHER -> "DeleteNode"

Persisted(s, call) ==
    CASE call.op = "AddNode" -> SaveNode(s, call.node, TRUE)
      [] call.op = "AddEdge" -> SaveEdge(s, call.edge, TRUE)
      [] OTHER -> DeleteNode(s, call.id, TRUE)

\* AddNode, AddEdge, RemoveNode: g.mu.Lock()
GraphLock(t, call) ==
    /\ pc[t] = "idle"
    /\ CanLock(mu)
    /\ call.op = "AddEdge" => CanAddEdge(call.edge)
    /\ mu' = t
    /\ pc' = [pc EXCEPT ![t] = "mem"]
    /\ pending' = [pending EXCEPT ![t] = call]
    /\ UNCHANGED <<nodes, edges, reverseEdges, store, files, disk, events, lastOp>>

\* the statements that change g.nodes, g.edges and g.reverseEdges
GraphMutate(t) ==
    /\ pc[t] = "mem"
    /\ \E g \in {InMemory(Cur, pending[t])} :
           /\ nodes' = g.nodes
           /\ edges' = g.edges
           /\ reverseEdges' = g.reverseEdges
    /\ IF ReturnsEarly(Cur, pending[t])
       THEN /\ pc' = [pc EXCEPT ![t] = "idle"]
            /\ pending' = [pending EXCEPT ![t] = NoCall]
            /\ mu' = IF mu = t THEN NoTask ELSE mu
            /\ lastOp' = Returned(pending[t].op, pending[t].id, FALSE, <<>>, NoRes)
       ELSE /\ pc' = [pc EXCEPT ![t] = "store"]
            /\ mu' = Release(t, "mem")
            /\ UNCHANGED <<pending, lastOp>>
    /\ UNCHANGED <<store, files, disk, events>>

\* g.store.SaveNode, SaveEdge or DeleteNode, and the return
GraphPersist(t) ==
    /\ pc[t] = "store"
    /\ store' = Persisted(store, pending[t])
    /\ lastOp' = Returned(pending[t].op, pending[t].id, TRUE,
                          <<StoreMethod(pending[t])>>, NoRes)
    /\ pc' = [pc EXCEPT ![t] = "idle"]
    /\ pending' = [pending EXCEPT ![t] = NoCall]
    /\ mu' = Release(t, "store")
    /\ UNCHANGED <<nodes, edges, reverseEdges, files, disk, events>>

\* the calls of SpecStore: one id with two nodes to tell the order of two
\* AddNode calls by
StoreCalls ==
    {[NoCall EXCEPT !.op = "AddNode", !.node = node] :
         node \in LockNodeInputs \cup {Node(<<"n1">>, NodeKindRequirement, NilMap, NilMap)}}
    \cup {[NoCall EXCEPT !.op = "AddEdge", !.edge = Edge(s, tg, EdgeTypeImports)] :
              s \in LockIds, tg \in LockIds}
    \cup {[NoCall EXCEPT !.op = "RemoveNode", !.id = id] : id \in LockIds}

NextStore ==
    \/ \E t \in Tasks, call \in StoreCalls : GraphLock(t, call)
    \/ \E t \in Tasks : GraphMutate(t)
    \/ \E t \in Tasks : GraphPersist(t)
    \/ Reopen

SpecStore == Init /\ [][NextStore]_vars

----------------------------------------------------------------------------
(* SpecTx: Store.DeleteNode called on the Store of a Graph, any of its     *)
(* statements failing                                                      *)

\* Store.DeleteNode; acted tells whether it returned nil
StoreDeleteNode(id, failAt) ==
    /\ CanLock(mu)
    /\ store.present
    /\ store' = DeleteNodeTx(store, id, failAt)
    /\ lastOp' = Returned("Store.DeleteNode", id, failAt = NoFailure, <<"DeleteNode">>, NoRes)
    /\ UNCHANGED <<nodes, edges, reverseEdges, mu, pc, pending, files, disk, events>>

NextTx ==
    \/ \E node \in NodeInputs : AddNode(node, TRUE)
    \/ \E s \in EdgeSources, tg \in EdgeTargets : AddEdge(s, tg, EdgeTypeImports, TRUE)
    \/ \E id \in Ids, failAt \in Failures \cup {NoFailure} : StoreDeleteNode(id, failAt)

SpecTx == Init /\ [][NextTx]_vars

----------------------------------------------------------------------------
(* The Analyzer.  A path is the sequence of its "/"-separated segments, a  *)
(* file's content the sequence of the import strings its import statements *)
(* hold, each again a sequence of segments.                                *)

LangTypeScript == "typescript"
LangGo == "go"
LangPython == "python"
LangRust == "rust"
LangPHP == "php"
LangUnknown == "unknown"

\* filepath.Base
Base(path) == path[Len(path)]

\* filepath.Dir
Dir(path) == IF Len(path) <= 1 THEN <<".">> ELSE SubSeq(path, 1, Len(path) - 1)

\* filepath.Clean on a relative path: "." is dropped, ".." takes back the
\* segment before it when there is one to take back
RECURSIVE CleanInto(_, _)
CleanInto(out, rest) ==
    IF rest = <<>> THEN (IF out = <<>> THEN <<".">> ELSE out)
    ELSE LET seg == Head(rest)
         IN  CASE seg = "." -> CleanInto(out, Tail(rest))
               [] seg = ".." /\ out # <<>> /\ out[Len(out)] # ".." ->
                      CleanInto(SubSeq(out, 1, Len(out) - 1), Tail(rest))
               [] OTHER -> CleanInto(Append(out, seg), Tail(rest))

\* filepath.Join
Join(dir, rel) == CleanInto(<<>>, dir \o rel)

\* filepath.Ext of a file name: the names that end in ".ts" are listed
Ext(name) ==
    CASE name \in {"a.ts", "b.ts", "login.ts", "rebuild.ts"} -> ".ts"
      [] name \in {"main.go"} -> ".go"
      [] name \in {"login.feature"} -> ".feature"
      [] OTHER -> ""

\* parser.DetectLanguage
DetectLanguage(filename) ==
    LET ext == Ext(Base(filename))
    IN  CASE ext \in {".ts", ".tsx"} -> LangTypeScript
          [] ext = ".go" -> LangGo
          [] ext = ".py" -> LangPython
          [] ext = ".rs" -> LangRust
          [] ext = ".php" -> LangPHP
          [] OTHER -> LangUnknown

\* strings.Contains(path, "/" + dir + "/") on a relative path
UnderDir(path, dir) == \E i \in 2..(Len(path) - 1) : path[i] = dir

\* detectLayer testing for "/infrastructure/" before "/domain/"
detectLayer_InfrastructureFirst(path) ==
    IF UnderDir(path, "infrastructure") THEN "infrastructure"
    ELSE IF UnderDir(path, "domain") THEN "domain"
    ELSE IF UnderDir(path, "application") THEN "application"
    ELSE IF UnderDir(path, "interface") \/ UnderDir(path, "api") THEN "interface"
    ELSE ""

\* analysis.detectLayer
detectLayer(path) ==
    IF UnderDir(path, "domain") THEN "domain"
    ELSE IF UnderDir(path, "application") THEN "application"
    ELSE IF UnderDir(path, "infrastructure") THEN "infrastructure"
    ELSE IF UnderDir(path, "interface") \/ UnderDir(path, "api") THEN "interface"
    ELSE ""

\* strings.HasPrefix(importStr, ".")
IsRelative(importStr) == importStr # <<>> /\ Head(importStr) \in {".", ".."}

\* the Analyzer's caches: tsConfigs and goMods, each keyed by directory
Caches(tsConfigs, goMods) == [tsConfigs |-> tsConfigs, goMods |-> goMods]

\* NewAnalyzer: both caches empty
NoCaches == Caches(EmptyMap, EmptyMap)

\* TSConfig: baseUrl as segments (<<>> when not set) and paths, a Go map from
\* pattern to target templates; a pattern or a template is its segments, the
\* last of which may be "*"
TSConfig(baseUrl, paths) == [BaseUrl |-> baseUrl, Paths |-> paths]

\* GoMod
GoMod(module) == [Module |-> module]

\* the upward walk of resolveTSImport and resolveGoImport returning the
\* farthest directory that has an entry
RECURSIVE Nearest_Farthest(_, _)
Nearest_Farthest(cache, dir) ==
    LET parent == Dir(dir)
        above == IF parent = dir THEN [found |-> FALSE, dir |-> dir]
                 ELSE Nearest_Farthest(cache, parent)
    IN  IF above.found THEN above
        ELSE IF dir \in DOMAIN cache THEN [found |-> TRUE, dir |-> dir]
        ELSE above

\* the upward walk of resolveTSImport and resolveGoImport: the first of dir,
\* Dir(dir), ... that has an entry in the cache; it stops where Dir(dir) = dir
RECURSIVE Nearest(_, _)
Nearest(cache, dir) ==
    IF dir \in DOMAIN cache THEN [found |-> TRUE, dir |-> dir]
    ELSE LET parent == Dir(dir)
         IN  IF parent = dir THEN [found |-> FALSE, dir |-> dir]
             ELSE Nearest(cache, parent)

\* strings.TrimSuffix(pattern, "*")
TrimStar(pattern) ==
    IF pattern # <<>> /\ pattern[Len(pattern)] = "*"
    THEN SubSeq(pattern, 1, Len(pattern) - 1) ELSE pattern

\* strings.HasPrefix(importStr, patternPrefix), segment by segment: the prefix
\* of a pattern "p/*" ends in "/", so the import has a segment more
MatchesPattern(importStr, pattern) ==
    LET prefix == TrimStar(pattern)
    IN  /\ Len(importStr) >= Len(prefix)
        /\ SubSeq(importStr, 1, Len(prefix)) = prefix
        /\ (prefix # pattern /\ prefix # <<>>) => Len(importStr) > Len(prefix)

\* resolveTSImport, the loop over config.Paths; visit is the order in which the
\* range over the map gives the patterns
RECURSIVE FirstMatch(_, _, _, _)
FirstMatch(config, dir, visit, importStr) ==
    IF visit = <<>> THEN importStr
    ELSE LET pattern == Head(visit)
             targets == config.Paths[pattern]
         IN  IF MatchesPattern(importStr, pattern) /\ Len(targets) > 0
             THEN LET suffix == SubSeq(importStr, Len(TrimStar(pattern)) + 1, Len(importStr))
                      base == IF config.BaseUrl = <<>> THEN <<".">> ELSE config.BaseUrl
                  IN  Join(dir, base \o TrimStar(targets[1]) \o suffix)
             ELSE FirstMatch(config, dir, Tail(visit), importStr)

\* Analyzer.resolveTSImport; order lists every pattern, and a range over
\* config.Paths gives its keys in that order
resolveTSImport(a, order, sourcePath, importStr) ==
    IF IsRelative(importStr) THEN Join(Dir(sourcePath), importStr)
    ELSE LET hit == Nearest(a.tsConfigs, Dir(sourcePath))
         IN  IF hit.found
             THEN LET config == a.tsConfigs[hit.dir]
                  IN  FirstMatch(config, hit.dir,
                                 SelectSeq(order, LAMBDA pt : pt \in DOMAIN config.Paths),
                                 importStr)
             ELSE importStr

\* Analyzer.resolveGoImport
resolveGoImport(a, sourcePath, importStr) ==
    LET hit == Nearest(a.goMods, Dir(sourcePath))
    IN  IF hit.found
        THEN LET module == a.goMods[hit.dir].Module
             IN  IF /\ Len(importStr) >= Len(module)
                    /\ SubSeq(importStr, 1, Len(module)) = module
                 THEN Join(hit.dir, SubSeq(importStr, Len(module) + 1, Len(importStr)))
                 ELSE importStr
        ELSE importStr

\* Analyzer.resolveImport for the languages whose import strings are paths
resolveImport(a, order, sourcePath, importStr, lang) ==
    CASE lang = LangTypeScript -> resolveTSImport(a, order, sourcePath, importStr)
      [] lang = LangGo -> resolveGoImport(a, sourcePath, importStr)
      [] lang \in {LangPython, LangPHP} ->
             IF IsRelative(importStr) THEN Join(Dir(sourcePath), importStr)
                                      ELSE importStr
      [] OTHER -> importStr

\* the bytes of a file, by what the parsers find in them: the import strings
\* of its import statements, the calls that register a step pattern, and (of a
\* .feature file) its lines
Content(imports, stepdefs, lines) ==
    [imports |-> imports, stepdefs |-> stepdefs, lines |-> lines]

NoContent == Content(<<>>, <<>>, <<>>)

\* parser.ParseImports: the captured import strings, quotes trimmed
ParseImports(content, lang) == IF lang = LangUnknown THEN <<>> ELSE content.imports

\* the Metadata that AnalyzeFile gives a Code node
CodeMetadata(layer, language) ==
    MapOf([k \in {"layer", "language"} |->
               IF k = "layer" THEN StrV(layer) ELSE StrV(language)])

\* Analyzer.AnalyzeFile, the loop over the imports
RECURSIVE AddImports(_, _, _, _, _, _)
AddImports(g, a, order, path, imports, lang) ==
    IF imports = <<>> THEN g
    ELSE AddImports(GraphAddEdge(g, path,
                                 resolveImport(a, order, path, Head(imports), lang),
                                 EdgeTypeImports, TRUE),
                    a, order, path, Tail(imports), lang)

\* a line of a .feature file after TrimSpace: the Feature: line, a Scenario:
\* line, a step (first word Given, When, Then, And or But, words its fields),
\* a line longer than the buffer of bufio.Scanner ("long"), or any other line
Line(k, name, words) == [k |-> k, name |-> name, words |-> words]

\* parser.GherkinScenario
Scenario(name, line) == [Name |-> name, Steps |-> <<>>, StepsHash |-> <<>>, Line |-> line]

\* parser.finalizeScenario: the digest stands for the steps it was computed from
finalizeScenario(sc) == [sc EXCEPT !.StepsHash = sc.Steps]

\* parser.ParseGherkin, the scan from line lineNum + 1 on; cur is the sequence
\* holding currentScenario, empty while it is nil
RECURSIVE ScanGherkin(_, _, _, _)
ScanGherkin(lines, lineNum, feature, cur) ==
    IF lines = <<>>
    THEN IF cur = <<>> THEN feature
         ELSE [feature EXCEPT !.Scenarios = Append(@, finalizeScenario(cur[1]))]
    ELSE LET line == Head(lines)
             n == lineNum + 1
         IN  CASE line.k = "long" ->
                      \* scanner.Scan() returns false, scanner.Err() is not read
                      ScanGherkin(<<>>, lineNum, feature, cur)
               [] line.k = "Feature" ->
                      ScanGherkin(Tail(lines), n, [feature EXCEPT !.Name = line.name], cur)
               [] line.k = "Scenario" ->
                      ScanGherkin(Tail(lines), n,
                                  IF cur = <<>> THEN feature
                                  ELSE [feature EXCEPT
                                          !.Scenarios = Append(@, finalizeScenario(cur[1]))],
                                  <<Scenario(line.name, n)>>)
               [] line.k = "step" /\ cur # <<>> ->
                      ScanGherkin(Tail(lines), n, feature,
                                  <<[cur[1] EXCEPT !.Steps = Append(@, line.words)]>>)
               [] OTHER -> ScanGherkin(Tail(lines), n, feature, cur)

\* parser.ParseGherkin
ParseGherkin(content) ==
    ScanGherkin(content.lines, 0, [Name |-> "", Scenarios |-> <<>>], <<>>)

\* strings.ReplaceAll(name, " ", "_"): of the names of the model, "a b" holds
\* a space
ReplaceSpaces(name) == IF name = "a b" THEN "a_b" ELSE name

\* "gh:feat:" + strings.ReplaceAll(name, " ", "_"), and the same for "gh:scen:"
GherkinID(prefix, name) == <<prefix, ReplaceSpaces(name)>>

\* Analyzer.analyzeGherkin, the loop over the scenarios
RECURSIVE AddScenarios(_, _, _)
AddScenarios(g, path, scenarios) ==
    IF scenarios = <<>> THEN g
    ELSE LET sc == Head(scenarios)
             scNode == Node(GherkinID("gh:scen:", sc.Name), NodeKindGherkinScenario,
                            MapOf([k \in {"name", "file", "steps_hash", "line", "steps"} |->
                                     CASE k = "name" -> StrV(sc.Name)
                                       [] k = "file" -> TextV(path)
                                       [] k = "steps_hash" -> TextV(sc.StepsHash)
                                       [] k = "line" -> IntV(sc.Line)
                                       [] OTHER -> StringsV(sc.Steps)]),
                            NilMap)
         IN  AddScenarios(GraphAddNode(g, scNode, TRUE), path, Tail(scenarios))

\* Analyzer.analyzeGherkin
analyzeGherkin(g, path, content) ==
    LET feat == ParseGherkin(content)
        featNode == Node(GherkinID("gh:feat:", feat.Name), NodeKindGherkinFeature,
                         MapOf([k \in {"name", "file"} |->
                                  IF k = "name" THEN StrV(feat.Name) ELSE TextV(path)]),
                         NilMap)
    IN  AddScenarios(GraphAddNode(g, featNode, TRUE), path, feat.Scenarios)

\* parser.StepDefFound
StepDefFound(pattern, functionName, line) ==
    [Pattern |-> pattern, FunctionName |-> functionName, Line |-> line]

\* parser.ParseStepDefinitions: the TypeScript query captures no method, so the
\* function name stays empty; Rust and PHP have no query
ParseStepDefinitions(content, lang) ==
    LET found == SelectSeq(content.stepdefs, LAMBDA d : d.Pattern # "")
    IN  CASE lang = LangTypeScript ->
                 [i \in 1..Len(found) |-> StepDefFound(found[i].Pattern, "", found[i].Line)]
          [] lang \in {LangGo, LangPython} -> found
          [] OTHER -> <<>>

\* fmt.Sprintf("stepdef:%s:%s", s.FunctionName, s.Pattern)
StepID(d) == <<"stepdef", d.FunctionName, d.Pattern>>

\* Analyzer.AnalyzeFile, the loop over the step definitions
RECURSIVE AddSteps(_, _, _)
AddSteps(g, path, steps) ==
    IF steps = <<>> THEN g
    ELSE LET d == Head(steps)
             stepNode == Node(StepID(d), NodeKindStepDefinition,
                              MapOf([k \in {"regex_pattern", "function_name", "filepath", "line"} |->
                                       CASE k = "regex_pattern" -> StrV(d.Pattern)
                                         [] k = "function_name" -> StrV(d.FunctionName)
                                         [] k = "filepath" -> TextV(path)
                                         [] OTHER -> IntV(d.Line)]),
                              NilMap)
         IN  AddSteps(GraphAddEdge(GraphAddNode(g, stepNode, TRUE),
                                   StepID(d), path, EdgeTypeCalls, TRUE),
                      path, Tail(steps))

\* strings.Contains(path, "test") || strings.Contains(path, "steps")
LooksLikeSteps(path) == \E i \in 1..Len(path) : path[i] \in {"test", "tests", "steps"}

\* Analyzer.AnalyzeFile on a file other than tsconfig.json and go.mod, by an
\* Analyzer with the caches a
AnalyzeSource(g, a, order, path, content) ==
    LET layer == detectLayer(path)
        lang == DetectLanguage(path)
    IN  IF Ext(Base(path)) = ".feature" THEN analyzeGherkin(g, path, content)
        ELSE IF lang = LangUnknown
        THEN IF layer # ""
             THEN GraphAddNode(g, Node(path, NodeKindCode, NilMap,
                                       CodeMetadata(layer, "unknown")), TRUE)
             ELSE g
        ELSE LET g1 == AddImports(GraphAddNode(g, Node(path, NodeKindCode, NilMap,
                                                       CodeMetadata(layer, lang)), TRUE),
                                  a, order, path, ParseImports(content, lang), lang)
             IN  IF layer = "interface" \/ LooksLikeSteps(path)
                 THEN AddSteps(g1, path, ParseStepDefinitions(content, lang))
                 ELSE g1

\* Analyzer.AnalyzeFile on a file other than tsconfig.json and go.mod, by an
\* Analyzer that has analysed neither
AnalyzerAnalyzeFile(g, path, content) == AnalyzeSource(g, NoCaches, <<>>, path, content)

\* node.Metadata["layer"] is not nil
HasLayer(node) == ~node.Metadata.nil /\ "layer" \in DOMAIN node.Metadata.kv

\* node.Metadata["layer"].(string)
LayerOf(node) == node.Metadata.kv["layer"].s

\* FindViolations with the test for "infrastructure" in the target id left out
LooksLikeInfrastructure_Never(targetID) == FALSE

\* strings.Contains(edge.TargetID, "infrastructure")
LooksLikeInfrastructure(targetID) ==
    \E i \in 1..Len(targetID) : targetID[i] = "infrastructure"

\* domain.Violation of the architecture rules
Violation(severity, message, file) ==
    [Severity |-> severity, Message |-> message, File |-> file,
     Kind |-> ViolationKindArchLayer, Line |-> 0]

\* FindViolations applying the heuristic for a missing target to every layer
EdgeViolations_AnyLayer(g, node, edge) ==
    IF edge.Type # EdgeTypeImports THEN <<>>
    ELSE IF edge.TargetID \notin DOMAIN g.nodes
    THEN IF LooksLikeInfrastructure(edge.TargetID)
         THEN <<Violation(SeverityCritical,
                          <<"Domain Rule Broken", node.ID, edge.TargetID, "Infrastructure">>,
                          node.ID)>>
         ELSE <<>>
    ELSE LET target == g.nodes[edge.TargetID]
         IN  IF ~HasLayer(target) THEN <<>>
             ELSE (IF /\ LayerOf(node) = "domain"
                      /\ LayerOf(target) \in {"infrastructure", "application"}
                   THEN <<Violation(SeverityCritical,
                                    <<"Domain Rule Broken", node.ID, target.ID, LayerOf(target)>>,
                                    node.ID)>>
                   ELSE <<>>)
                  \o
                  (IF LayerOf(node) = "application" /\ LayerOf(target) = "infrastructure"
                   THEN <<Violation(SeverityWarning,
                                    <<"Application Alert", node.ID, target.ID, "Infrastructure">>,
                                    node.ID)>>
                   ELSE <<>>)

\* Analyzer.FindViolations, the body of the loop over the edges of a node
EdgeViolations(g, node, edge) ==
    IF edge.Type # EdgeTypeImports THEN <<>>
    ELSE IF edge.TargetID \notin DOMAIN g.nodes
    THEN IF LooksLikeInfrastructure(edge.TargetID) /\ LayerOf(node) = "domain"
         THEN <<Violation(SeverityCritical,
                          <<"Domain Rule Broken", node.ID, edge.TargetID, "Infrastructure">>,
                          node.ID)>>
         ELSE <<>>
    ELSE LET target == g.nodes[edge.TargetID]
         IN  IF ~HasLayer(target) THEN <<>>
             ELSE (IF /\ LayerOf(node) = "domain"
                      /\ LayerOf(target) \in {"infrastructure", "application"}
                   THEN <<Violation(SeverityCritical,
                                    <<"Domain Rule Broken", node.ID, target.ID, LayerOf(target)>>,
                                    node.ID)>>
                   ELSE <<>>)
                  \o
                  (IF LayerOf(node) = "application" /\ LayerOf(target) = "infrastructure"
                   THEN <<Violation(SeverityWarning,
                                    <<"Application Alert", node.ID, target.ID, "Infrastructure">>,
                                    node.ID)>>
                   ELSE <<>>)

RECURSIVE BucketViolations(_, _, _)
BucketViolations(g, node, bucket) ==
    IF bucket = <<>> THEN <<>>
    ELSE EdgeViolations(g, node, Head(bucket)) \o BucketViolations(g, node, Tail(bucket))

\* Analyzer.FindViolations, the body of the loop over the nodes
NodeViolations(g, node) ==
    IF node.Kind # NodeKindCode \/ ~HasLayer(node) THEN <<>>
    ELSE BucketViolations(g, node, Get(g.edges, node.ID))

\* Analyzer.FindViolations on a graph without Gherkin scenarios; order is the
\* order in which GetAllNodes ranged over the node table
RECURSIVE AnalyzerFindViolations(_, _)
AnalyzerFindViolations(g, order) ==
    IF order = <<>> THEN <<>>
    ELSE NodeViolations(g, g.nodes[Head(order)]) \o AnalyzerFindViolations(g, Tail(order))

\* the step patterns of the model, by what regexp.Compile and the Cucumber
\* expression parser make of them: words is the text to find, anchored says
\* whether ^ and $ enclose it, "{int}" is the Cucumber parameter
Patterns ==
    [pattern \in {"^a user$", "they", "a user {int}"} |->
        CASE pattern = "^a user$" ->
                 [syntax |-> "regex", anchored |-> TRUE, words |-> <<"a", "user">>]
          [] pattern = "they" ->
                 [syntax |-> "regex", anchored |-> FALSE, words |-> <<"they">>]
          [] OTHER ->
                 [syntax |-> "cucumber", anchored |-> TRUE, words |-> <<"a", "user", "{int}">>]]

\* the words an {int} parameter matches
IntWords == {"5"}

\* strings.Contains and an unanchored regexp.MatchString, word by word
Infix(words, text) ==
    \E i \in 0..(Len(text) - Len(words)) : SubSeq(text, i + 1, i + Len(words)) = words

\* analysis.cleanStepText
cleanStepText(step) == IF Len(step) > 1 THEN Tail(step) ELSE step

\* analysis.matchStep
matchStep(text, pattern) ==
    LET p == Patterns[pattern]
    IN  CASE p.syntax = "cucumber" ->
                 /\ Len(text) = Len(p.words)
                 /\ \A i \in 1..Len(text) :
                        IF p.words[i] = "{int}" THEN text[i] \in IntWords
                                                ELSE text[i] = p.words[i]
          [] p.syntax = "regex" ->
                 IF p.anchored THEN text = p.words ELSE Infix(p.words, text)
          [] OTHER -> Infix(p.words, text)

\* Analyzer.filterNodes, as the set of the ids it returns
filterNodes(g, kind) == {id \in DOMAIN g.nodes : g.nodes[id].Kind = kind}

\* the drift pass taking the list that decoding gives for a []string as well
HasSteps_AnyList(sc) ==
    /\ ~sc.Properties.nil
    /\ "steps" \in DOMAIN sc.Properties.kv
    /\ sc.Properties.kv["steps"].t \in {"[]string", "[]interface{}"}

\* sc.Properties["steps"].([]string): the assertion holds
HasSteps(sc) ==
    /\ ~sc.Properties.nil
    /\ "steps" \in DOMAIN sc.Properties.kv
    /\ sc.Properties.kv["steps"].t = "[]string"

\* sd.Properties["regex_pattern"].(string): the assertion holds
HasPattern(sd) ==
    /\ ~sd.Properties.nil
    /\ "regex_pattern" \in DOMAIN sd.Properties.kv
    /\ sd.Properties.kv["regex_pattern"].t = "string"

\* the loop over stepDefs of the drift pass: some pattern matches
Matched(g, cleanedStep) ==
    \E id \in filterNodes(g, NodeKindStepDefinition) :
        /\ HasPattern(g.nodes[id])
        /\ matchStep(cleanedStep, g.nodes[id].Properties.kv["regex_pattern"].s)

\* x.(T) without ", ok" on m[key]: it panics on nil and on any other type
Asserts(m, key, type) == ~m.nil /\ key \in DOMAIN m.kv /\ m.kv[key].t = type

\* layer.(string) and targetLayer.(string) of the first pass: one of them panics
LayerPanics(g) ==
    \E id \in DOMAIN g.nodes :
        LET node == g.nodes[id]
        IN  /\ node.Kind = NodeKindCode
            /\ HasLayer(node)
            /\ \/ ~Asserts(node.Metadata, "layer", "string")
               \/ \E e \in SeqToSet(Get(g.edges, id)) :
                      /\ e.Type = EdgeTypeImports
                      /\ e.TargetID \in DOMAIN g.nodes
                      /\ HasLayer(g.nodes[e.TargetID])
                      /\ ~Asserts(g.nodes[e.TargetID].Metadata, "layer", "string")

\* sc.Properties["file"].(string) and sc.Properties["line"].(int) of the drift
\* pass, evaluated for a step that no pattern matched: one of them panics
DriftPanics(g) ==
    \E id \in filterNodes(g, NodeKindGherkinScenario) :
        LET sc == g.nodes[id]
        IN  /\ HasSteps(sc)
            /\ \E i \in 1..Len(sc.Properties.kv["steps"].l) :
                   ~Matched(g, cleanStepText(sc.Properties.kv["steps"].l[i]))
            /\ \/ ~Asserts(sc.Properties, "file", "string")
               \/ ~Asserts(sc.Properties, "line", "int")

\* Analyzer.FindViolations panics on the graph g
FindViolationsPanics(g) == LayerPanics(g) \/ DriftPanics(g)

\* domain.Violation of the drift pass
DriftViolation(sc, stepText) ==
    [Severity |-> SeverityWarning,
     Message |-> <<"BDD Drift/Missing", stepText, sc.ID>>,
     File |-> sc.Properties.kv["file"].l,
     Kind |-> ViolationKindBDDDrift,
     Line |-> sc.Properties.kv["line"].n]

\* Analyzer.FindViolations, the drift pass over the steps of one scenario
RECURSIVE StepsDrift(_, _, _)
StepsDrift(g, sc, steps) ==
    IF steps = <<>> THEN <<>>
    ELSE (IF Matched(g, cleanStepText(Head(steps))) THEN <<>>
          ELSE <<DriftViolation(sc, Head(steps))>>)
         \o StepsDrift(g, sc, Tail(steps))

\* Analyzer.FindViolations, the drift pass; scOrder is the order in which
\* filterNodes returned the scenarios
RECURSIVE DriftViolations(_, _)
DriftViolations(g, scOrder) ==
    IF scOrder = <<>> THEN <<>>
    ELSE LET sc == g.nodes[Head(scOrder)]
         IN  (IF HasSteps(sc) THEN StepsDrift(g, sc, sc.Properties.kv["steps"].l) ELSE <<>>)
             \o DriftViolations(g, Tail(scOrder))

\* Analyzer.IndexStepDefinitions, the loop over stepDefs for one step
RECURSIVE IndexStep(_, _, _, _)
IndexStep(g, scID, cleanedStep, sdOrder) ==
    IF sdOrder = <<>> THEN g
    ELSE LET sd == g.nodes[Head(sdOrder)]
         IN  IndexStep(IF /\ HasPattern(sd)
                          /\ matchStep(cleanedStep, sd.Properties.kv["regex_pattern"].s)
                       THEN GraphAddEdge(g, scID, sd.ID, EdgeTypeExecutes, TRUE)
                       ELSE g,
                       scID, cleanedStep, Tail(sdOrder))

\* Analyzer.IndexStepDefinitions, the loop over the steps of one scenario
RECURSIVE IndexSteps(_, _, _, _)
IndexSteps(g, scID, steps, sdOrder) ==
    IF steps = <<>> THEN g
    ELSE IndexSteps(IndexStep(g, scID, cleanStepText(Head(steps)), sdOrder),
                    scID, Tail(steps), sdOrder)

\* Analyzer.IndexStepDefinitions; scOrder and sdOrder are the orders in which
\* filterNodes returned the scenarios and the step definitions
RECURSIVE AnalyzerIndexStepDefinitions(_, _, _)
AnalyzerIndexStepDefinitions(g, scOrder, sdOrder) ==
    IF scOrder = <<>> THEN g
    ELSE LET sc == g.nodes[Head(scOrder)]
         IN  AnalyzerIndexStepDefinitions(
                 IF HasSteps(sc)
                 THEN IndexSteps(g, sc.ID, sc.Properties.kv["steps"].l, sdOrder)
                 ELSE g,
                 Tail(scOrder), sdOrder)

\* the bytes of a tsconfig.json, by what json.Unmarshal makes of them, and of
\* a go.mod, by what the module regexp finds in them
TSConfigContent(valid, config) == [valid |-> valid, config |-> config]
GoModContent(valid, module) == [valid |-> valid, module |-> module]

\* the manifests among the analysed files that have the name
Manifests(fs, name) == {p \in DOMAIN fs : Base(p) = name}

\* Analyzer.tsConfigs: files keeps, for a tsconfig.json, the content that
\* parseTSConfig last stored an entry from
tsConfigs(fs) ==
    [dir \in {Dir(p) : p \in Manifests(fs, "tsconfig.json")} |->
         fs[CHOOSE p \in Manifests(fs, "tsconfig.json") : Dir(p) = dir].config]

\* Analyzer.goMods, kept in files the same way
goMods(fs) ==
    [dir \in {Dir(p) : p \in Manifests(fs, "go.mod")} |->
         GoMod(fs[CHOOSE p \in Manifests(fs, "go.mod") : Dir(p) = dir].module)]

\* Analyzer.parseTSConfig: the entry is stored when the content parses
parseTSConfig(fs, path, content) == IF content.valid THEN Put(fs, path, content) ELSE fs

\* Analyzer.parseGoMod: the entry is stored when a module line is found
parseGoMod(fs, path, content) == IF content.valid THEN Put(fs, path, content) ELSE fs

\* every pattern of every cached tsconfig
AllPatterns(fs) == UNION {DOMAIN tsConfigs(fs)[dir].Paths : dir \in DOMAIN tsConfigs(fs)}

\* Analyzer.AnalyzeFile as a function of the Analyzer's state, st.g the graph
\* and st.files the files analysed with their contents
AnalyzerStep(st, order, path, content) ==
    CASE Base(path) = "tsconfig.json" ->
             [g |-> st.g, files |-> parseTSConfig(st.files, path, content)]
      [] Base(path) = "go.mod" ->
             [g |-> st.g, files |-> parseGoMod(st.files, path, content)]
      [] OTHER ->
             [g |-> AnalyzeSource(st.g, Caches(tsConfigs(st.files), goMods(st.files)),
                                  order, path, content),
              files |-> Put(st.files, path, content)]

\* Analyzer.AnalyzeFile; files keeps the content each path was last analysed with
AnalyzeFile(path, content) ==
    /\ CanLock(mu)
    /\ \E order \in Orderings(AllPatterns(files)) :
         \E st \in {AnalyzerStep([g |-> Cur, files |-> files], order, path, content)} :
               /\ Install(st.g)
               /\ lastOp' = Returned("AnalyzeFile", path, TRUE, st.g.calls, NoRes)
               /\ files' = st.files
    /\ UNCHANGED <<mu, pc, pending, disk, events>>

\* Analyzer.FindViolations; acted is FALSE when the call panicked
FindViolations ==
    /\ CanLock(mu)
    /\ \E order \in Orderings(DOMAIN nodes),
          scOrder \in Orderings(filterNodes(Cur, NodeKindGherkinScenario)) :
           lastOp' = IF FindViolationsPanics(Cur)
                     THEN Returned("FindViolations", NoId, FALSE, <<>>, NoRes)
                     ELSE Returned("FindViolations", NoId, TRUE, <<>>,
                                   [NoRes EXCEPT !.violations =
                                        AnalyzerFindViolations(Cur, order)
                                        \o DriftViolations(Cur, scOrder)])
    /\ UNCHANGED <<nodes, edges, reverseEdges, store, mu, pc, pending, files, disk, events>>

\* Analyzer.IndexStepDefinitions
IndexStepDefinitions ==
    /\ CanLock(mu)
    /\ \E scOrder \in Orderings(filterNodes(Cur, NodeKindGherkinScenario)),
          sdOrder \in Orderings(filterNodes(Cur, NodeKindStepDefinition)) :
         \E g \in {AnalyzerIndexStepDefinitions(Cur, scOrder, sdOrder)} :
               /\ Install(g)
               /\ lastOp' = Returned("IndexStepDefinitions", NoId, TRUE, g.calls, NoRes)
    /\ UNCHANGED <<mu, pc, pending, files, disk, events>>

----------------------------------------------------------------------------
(* SpecAnalyzer: files of the four layers analysed in any order into a     *)
(* Graph without Store, and FindViolations                                 *)

DomainFile == <<"src", "domain", "a.ts">>
ApplicationFile == <<"src", "application", "a.ts">>
InfrastructureFile == <<"src", "infrastructure", "b.ts">>
\* files without extension: Code nodes of an unknown language
InfrastructureBare == <<"src", "infrastructure", "b">>
InterfaceBare == <<"src", "interface", "c">>

ImportInfrastructure == <<"..", "infrastructure", "b">>
ImportInterface == <<"..", "interface", "c">>

SourceFiles == {DomainFile, ApplicationFile}
OtherFiles == {InfrastructureFile, InfrastructureBare, InterfaceBare}
Contents ==
    {NoContent, Content(<<ImportInfrastructure>>, <<>>, <<>>),
     Content(<<ImportInterface>>, <<>>, <<>>)}

InitAnalyzer == InitGraph(FALSE)

NextAnalyzer ==
    \/ \E path \in SourceFiles, content \in Contents : AnalyzeFile(path, content)
    \/ \E path \in OtherFiles : AnalyzeFile(path, NoContent)
    \/ FindViolations

SpecAnalyzer == InitAnalyzer /\ [][NextAnalyzer]_vars

----------------------------------------------------------------------------
(* SpecBDD: a feature file and a file of step definitions analysed into a  *)
(* Store-backed Graph, indexed, checked for drift; the process restarted   *)
(* on the same Store; the files' nodes removed                             *)

FeatureFile == <<"features", "login.feature">>
StepsFile == <<"src", "steps", "login.ts">>

StepUser == <<"Given", "a", "user">>
StepLeave == <<"When", "they", "leave">>

FeatureContents ==
    {Content(<<>>, <<>>, <<Line("Feature", "Login", <<>>), Line("Scenario", "S1", <<>>),
                          Line("step", "", StepUser)>>),
     Content(<<>>, <<>>, <<Line("Feature", "Login", <<>>), Line("other", "", <<>>),
                          Line("Scenario", "S1", <<>>), Line("step", "", StepLeave)>>)}

StepsContents ==
    {NoContent,
     Content(<<>>, <<StepDefFound("^a user$", "Given", 1)>>, <<>>),
     Content(<<>>, <<StepDefFound("they", "When", 2)>>, <<>>)}

NextBDD ==
    \/ \E content \in FeatureContents : AnalyzeFile(FeatureFile, content)
    \/ \E content \in StepsContents : AnalyzeFile(StepsFile, content)
    \/ IndexStepDefinitions
    \/ FindViolations
    \/ Reopen
    \/ \E id \in {StepsFile, <<"gh:scen:", "S1">>, <<"stepdef", "", "they">>} :
           RemoveNode(id, TRUE)

SpecBDD == Init /\ [][NextBDD]_vars

----------------------------------------------------------------------------
(* The tool link_requirement, and SpecLink: links made on a Store-backed   *)
(* Graph between AddNode and RemoveNode calls                              *)

\* HexanormServer.linkRequirement, its effect on the Graph
linkRequirement(g, filePath, reqID) ==
    LET g1 == IF reqID \in DOMAIN g.nodes THEN g
              ELSE GraphAddNode(g, Node(reqID, NodeKindRequirement,
                                        MapOf([title |-> StrV("Manually Linked Requirement")]),
                                        NilMap), TRUE)
    IN  GraphAddEdge(g1, reqID, filePath, EdgeTypeImplementedBy, TRUE)

\* the tool's result: the text "Linked <req_id> to <file_path>"
Linked(reqID, filePath) ==
    [features |-> <<>>, requirements |-> <<>>, violations |-> <<>>,
     text |-> <<"Linked", reqID, filePath>>]

\* HexanormServer.linkRequirement; acted tells whether the node was created
LinkRequirement(filePath, reqID) ==
    /\ CanLock(mu)
    /\ CanAddEdge(Edge(reqID, filePath, EdgeTypeImplementedBy))
    /\ \E g \in {linkRequirement(Cur, filePath, reqID)} :
           /\ Install(g)
           /\ lastOp' = Returned("LinkRequirement", reqID, reqID \notin DOMAIN nodes,
                                 g.calls, Linked(reqID, filePath))
    /\ UNCHANGED <<mu, pc, pending, files, disk, events>>

\* a requirement with properties of its own, next to the nodes of NodeInputs
LinkNodeInputs ==
    NodeInputs \cup {Node(<<"n2">>, NodeKindRequirement, MapOf([title |-> StrV("Login")]), NilMap)}

NextLink ==
    \/ \E node \in LinkNodeInputs : AddNode(node, TRUE)
    \/ \E filePath \in Ids, reqID \in Ids : LinkRequirement(filePath, reqID)
    \/ \E id \in Ids : RemoveNode(id, TRUE)

SpecLink == Init /\ [][NextLink]_vars

----------------------------------------------------------------------------
(* SpecEdges: files analysed again with other imports, nodes added again   *)
(* under an id in use, nodes removed, and Clear                            *)

\* nodes added by hand under the id of an analysed file
ReAdded == {Node(DomainFile, NodeKindCode, NilMap, NilMap),
            Node(InfrastructureBare, NodeKindRequirement, NilMap, NilMap)}

NextEdges ==
    \/ \E content \in Contents : AnalyzeFile(DomainFile, content)
    \/ AnalyzeFile(InfrastructureBare, NoContent)
    \/ \E node \in ReAdded : AddNode(node, TRUE)
    \/ \E id \in {DomainFile, InfrastructureBare, InterfaceBare} : RemoveNode(id, TRUE)
    \/ Clear

SpecEdges == InitAnalyzer /\ [][NextEdges]_vars

----------------------------------------------------------------------------
(* SpecLayer: files inside one layer, inside two, and outside every layer  *)

PlainFile == <<"src", "utils", "a.ts">>
PlainBare == <<"src", "utils", "b">>
ApiFile == <<"src", "api", "a.ts">>
InfrastructureDomainFile == <<"src", "infrastructure", "domain", "a.ts">>
DomainInfrastructureFile == <<"src", "domain", "infrastructure", "a.ts">>
\* no "/" before "domain"
TopLevelFile == <<"domain", "a.ts">>

LayerFiles ==
    {DomainFile, PlainFile, PlainBare, ApiFile, InfrastructureDomainFile,
     DomainInfrastructureFile, TopLevelFile}

NextLayer ==
    \/ \E path \in LayerFiles : AnalyzeFile(path, NoContent)
    \/ \E path \in LayerFiles : RemoveNode(path, TRUE)

SpecLayer == InitAnalyzer /\ [][NextLayer]_vars

----------------------------------------------------------------------------
(* SpecResolve: source files with imports that are not relative, and the   *)
(* manifests of their directories, analysed in any order                   *)

RootTSConfig == <<"tsconfig.json">>
SrcTSConfig == <<"src", "tsconfig.json">>
RootGoMod == <<"go.mod">>
GoFile == <<"pkg", "main.go">>

AliasImport == <<"@lib", "x">>
ModuleImport == <<"example.com", "m", "db">>

\* {"paths": {"*": ["vendor/*"], "@lib/*": ["src/infrastructure/*"]}}
CatchAllConfig ==
    TSConfig(<<>>, [pt \in {<<"*">>, <<"@lib", "*">>} |->
                       IF pt = <<"*">> THEN <<<<"vendor", "*">>>>
                                       ELSE <<<<"src", "infrastructure", "*">>>>])

\* {"baseUrl": "lib", "paths": {"@lib/*": ["domain/*", "other/*"]}}
AliasConfig ==
    TSConfig(<<"lib">>, [pt \in {<<"@lib", "*">>} |-> <<<<"domain", "*">>, <<"other", "*">>>>])

\* {"paths": {"@lib/*": [], "@app/*": ["src/application/*"]}}
NoMatchConfig ==
    TSConfig(<<>>, [pt \in {<<"@lib", "*">>, <<"@app", "*">>} |->
                       IF pt = <<"@lib", "*">> THEN <<>>
                                               ELSE <<<<"src", "application", "*">>>>])

ManifestInputs ==
    {<<RootTSConfig, TSConfigContent(TRUE, CatchAllConfig)>>,
     <<RootTSConfig, TSConfigContent(TRUE, NoMatchConfig)>>,
     <<RootTSConfig, TSConfigContent(FALSE, TSConfig(<<>>, EmptyMap))>>,
     <<SrcTSConfig, TSConfigContent(TRUE, AliasConfig)>>,
     <<RootGoMod, GoModContent(TRUE, <<"example.com", "m">>)>>,
     <<RootGoMod, GoModContent(TRUE, <<"example.com", "other">>)>>}

SourceInputs ==
    {<<ApplicationFile, Content(<<AliasImport>>, <<>>, <<>>)>>,
     <<GoFile, Content(<<ModuleImport>>, <<>>, <<>>)>>}

ResolveInputs == ManifestInputs \cup SourceInputs

NextResolve == \E in \in ResolveInputs : AnalyzeFile(in[1], in[2])

SpecResolve == InitAnalyzer /\ [][NextResolve]_vars

----------------------------------------------------------------------------
(* SpecQuery: the read methods of the Graph, the resources built on them,  *)
(* and a caller that writes into the slice GetEdgesFrom or GetEdgesTo      *)
(* returned.  A slice is its elements and the bucket whose backing array   *)
(* it shares, if any                                                       *)

Slice(items, index, key) == [items |-> items, index |-> index, key |-> key]

\* the result of a read method or a resource
Out(out) == [features |-> <<>>, requirements |-> <<>>, violations |-> <<>>, out |-> out]

Bucket(index, key) == IF key \in DOMAIN index THEN index[key] ELSE <<>>

\* GetEdgesFrom returning the bucket itself
GraphGetEdgesFrom_NoCopy(g, sourceID) == Slice(Bucket(g.edges, sourceID), "edges", sourceID)

\* Graph.GetEdgesFrom: make and copy, a slice with an array of its own
GraphGetEdgesFrom(g, sourceID) == Slice(Bucket(g.edges, sourceID), "", NoId)

\* Graph.GetEdgesTo
GraphGetEdgesTo(g, targetID) == Slice(Bucket(g.reverseEdges, targetID), "", NoId)

\* Graph.GetNode: the node and whether it was found
GraphGetNode(g, id) ==
    IF id \in DOMAIN g.nodes THEN <<g.nodes[id], TRUE>> ELSE <<NoNode, FALSE>>

\* Graph.GetAllNodes: the nodes in the order the range over the map gives
GraphGetAllNodes(g, order) == [i \in 1..Len(order) |-> g.nodes[order[i]]]

\* the edges of a slice that have the type, in order
RECURSIVE OfType(_, _)
OfType(seq, type) ==
    IF seq = <<>> THEN <<>>
    ELSE (IF Head(seq).Type = type THEN <<Head(seq)>> ELSE <<>>) \o OfType(Tail(seq), type)

\* the nodes of a slice that have the kind, in order
RECURSIVE OfKind(_, _)
OfKind(seq, kind) ==
    IF seq = <<>> THEN <<>>
    ELSE (IF Head(seq).Kind = kind THEN <<Head(seq)>> ELSE <<>>) \o OfKind(Tail(seq), kind)

\* handleTraceability: the entry of one Requirement node
TraceEntry(g, n) ==
    LET code == OfType(GraphGetEdgesFrom(g, n.ID).items, EdgeTypeImplementedBy)
        verifiers == OfType(GraphGetEdgesTo(g, n.ID).items, EdgeTypeVerifies)
    IN  [requirement_id |-> n.ID,
         code |-> [i \in 1..Len(code) |-> code[i].TargetID],
         verifiers |-> [i \in 1..Len(verifiers) |-> verifiers[i].SourceID]]

\* handleTraceability: the matrix
handleTraceability(g, order) ==
    LET reqs == OfKind(GraphGetAllNodes(g, order), NodeKindRequirement)
    IN  [i \in 1..Len(reqs) |-> TraceEntry(g, reqs[i])]

\* handleLiveDocs: one line per node
handleLiveDocs(g, order) ==
    [i \in 1..Len(order) |-> <<g.nodes[order[i]].ID, g.nodes[order[i]].Kind>>]

\* handleStatus
handleStatus(g, order) ==
    [node_count |-> Len(GraphGetAllNodes(g, order)), status |-> "healthy"]

\* a read method or a resource returns; the Graph's fields are only read
Answer(op, id, out) ==
    /\ CanLock(mu)
    /\ lastOp' = Returned(op, id, TRUE, <<>>, Out(out))
    /\ UNCHANGED <<nodes, edges, reverseEdges, store, mu, pc, pending, files, disk, events>>

GetNode(id) == Answer("GetNode", id, GraphGetNode(Cur, id))

GetAllNodes ==
    \E order \in Orderings(DOMAIN nodes) :
        Answer("GetAllNodes", NoId, GraphGetAllNodes(Cur, order))

GetEdgesFrom(sourceID) == Answer("GetEdgesFrom", sourceID, GraphGetEdgesFrom(Cur, sourceID))

GetEdgesTo(targetID) == Answer("GetEdgesTo", targetID, GraphGetEdgesTo(Cur, targetID))

Resource(uri) ==
    \E order \in Orderings(DOMAIN nodes) :
        Answer(uri, NoId,
               CASE uri = "status" -> handleStatus(Cur, order)
                 [] uri = "live_docs" -> handleLiveDocs(Cur, order)
                 [] OTHER -> handleTraceability(Cur, order))

\* the caller assigns to element i of the slice it was returned; a bucket that
\* shares the slice's array holds the new element too
WriteSlice(i, edge) ==
    /\ lastOp.op \in {"GetEdgesFrom", "GetEdgesTo", "WriteSlice"}
    /\ i \in 1..Len(lastOp.res.out.items)
    /\ lastOp.res.out.items[i] # edge
    /\ lastOp' = [lastOp EXCEPT !.op = "WriteSlice", !.res.out.items[i] = edge]
    /\ LET s == lastOp.res.out
       IN  /\ edges' = IF s.index = "edges" /\ s.key \in DOMAIN edges /\ i <= Len(edges[s.key])
                       THEN [edges EXCEPT ![s.key][i] = edge] ELSE edges
           /\ reverseEdges' = IF s.index = "reverseEdges" /\ s.key \in DOMAIN reverseEdges
                                 /\ i <= Len(reverseEdges[s.key])
                              THEN [reverseEdges EXCEPT ![s.key][i] = edge] ELSE reverseEdges
    /\ UNCHANGED <<nodes, store, mu, pc, pending, files, disk, events>>

QueryOps ==
    {"GetNode", "GetAllNodes", "GetEdgesFrom", "GetEdgesTo", "FindViolations", "BlastRadius",
     "status", "live_docs", "traceability_matrix"}

NextQuery ==
    \/ \E node \in LinkNodeInputs : AddNode(node, TRUE)
    \/ \E s \in EdgeSources, tg \in EdgeTargets : AddEdge(s, tg, EdgeTypeImplementedBy, TRUE)
    \/ \E id \in Ids : GetNode(id)
    \/ GetAllNodes
    \/ \E id \in Ids : GetEdgesFrom(id)
    \/ \E id \in Ids : GetEdgesTo(id)
    \/ \E uri \in {"status", "live_docs", "traceability_matrix"} : Resource(uri)
    \/ FindViolations
    \/ \E id \in Ids : BlastRadiusQuery(id)
    \/ WriteSlice(1, Edge(<<"n3">>, <<"n1">>, EdgeTypeVerifies))

SpecQuery == Init /\ [][NextQuery]_vars

----------------------------------------------------------------------------
(* SpecGherkin: ParseGherkin on every text of up to MaxLines lines         *)

MaxLines == 3

GherkinLines ==
    {Line("Feature", "Login", <<>>), Line("Scenario", "S1", <<>>),
     Line("Scenario", "S2", <<>>), Line("step", "", StepUser),
     Line("step", "", StepLeave), Line("other", "", <<>>), Line("long", "", <<>>)}

GherkinTexts == UNION {[1..n -> GherkinLines] : n \in 0..MaxLines}

\* the parser called on a text; files keeps the text
Parse(lines) ==
    /\ lastOp' = Returned("ParseGherkin", FeatureFile, TRUE, <<>>,
                          Out(ParseGherkin(Content(<<>>, <<>>, lines))))
    /\ files' = Put(files, FeatureFile, Content(<<>>, <<>>, lines))
    /\ UNCHANGED <<nodes, edges, reverseEdges, store, mu, pc, pending, disk, events>>

NextGherkin == \E lines \in GherkinTexts : Parse(lines)

SpecGherkin == InitAnalyzer /\ [][NextGherkin]_vars

----------------------------------------------------------------------------
(* The Watcher: the file tree it watches, the events fsnotify sends for    *)
(* the changes of that tree, and the loop that handles them                *)

\* fsnotify.Op
OpCreate == "CREATE"
OpWrite == "WRITE"
OpRemove == "REMOVE"
OpRename == "RENAME"

\* fsnotify.Event
Event(name, op) == [Name |-> name, Op |-> op]

\* an entry of the file tree: a regular file with its bytes, or a directory
File(content) == [dir |-> FALSE, content |-> content]
Directory == [dir |-> TRUE, content |-> NoContent]

\* config.DefaultConfig.ExcludedDirs
ExcludedDirs == {"node_modules", "dist", "build", ".git", "vendor"}

\* the excluded names that occur in a segment as a substring: the name itself,
\* and "build" in "rebuild.ts"
Within(segment) ==
    CASE segment \in ExcludedDirs -> {segment}
      [] segment = "rebuild.ts" -> {"build"}
      [] OTHER -> {}

\* shouldIgnore comparing whole segments with the excluded names
shouldIgnore_BySegment(path) ==
    \/ \E i \in 1..Len(path) : path[i] \in ExcludedDirs
    \/ Base(path) \in {".git", ".vibecoder"}
    \/ UnderDir(path, ".vibecoder")

\* Watcher.shouldIgnore: strings.Contains(path, excl) || base == excl for each
\* excluded name, then the tests for .git and .vibecoder
shouldIgnore(path) ==
    \/ \E i \in 1..Len(path) : \E excl \in ExcludedDirs : excl \in Within(path[i])
    \/ Base(path) \in {".git", ".vibecoder"}
    \/ UnderDir(path, ".vibecoder")

\* os.Stat(path): err == nil && info.IsDir()
IsDir(tree, path) == path \in DOMAIN tree /\ tree[path].dir

\* os.ReadFile(path) returns no error: readOK is FALSE when the read of an
\* existing file fails
CanRead(tree, path, readOK) == path \in DOMAIN tree /\ ~tree[path].dir /\ readOK

\* Watcher.analyzeFile going on with empty content after a failed read
analyzeFile_IgnoreError(g, tree, path, readOK) ==
    AnalyzerAnalyzeFile(g, path, IF CanRead(tree, path, readOK) THEN tree[path].content
                                 ELSE NoContent)

\* Watcher.analyzeFile: a failed read is logged and nothing else happens
analyzeFile(g, tree, path, readOK) ==
    IF CanRead(tree, path, readOK)
    THEN AnalyzerAnalyzeFile(g, path, tree[path].content)
    ELSE g

\* Watcher.handleEvent that leaves Remove and Rename events unhandled
handleEvent_KeepRemoved(g, tree, event, readOK) ==
    IF shouldIgnore(event.Name) \/ event.Op \in {OpRemove, OpRename} THEN g
    ELSE analyzeFile(g, tree, event.Name, readOK)

\* handleEvent taking the StepDefinition nodes of a removed file with it
handleEvent_DropDerived(g, tree, event, readOK) ==
    IF shouldIgnore(event.Name) THEN g
    ELSE CASE event.Op = OpCreate ->
                  IF IsDir(tree, event.Name) THEN g
                  ELSE analyzeFile(g, tree, event.Name, readOK)
           [] event.Op = OpWrite -> analyzeFile(g, tree, event.Name, readOK)
           [] event.Op \in {OpRemove, OpRename} ->
                  LET g1 == GraphRemoveNode(g, event.Name, TRUE)
                      kept == {id \in DOMAIN g1.nodes :
                                   \/ g1.nodes[id].Kind # NodeKindStepDefinition
                                   \/ g1.nodes[id].Properties.kv["filepath"].l # event.Name}
                  IN  [g1 EXCEPT !.nodes = [id \in kept |-> g1.nodes[id]]]
           [] OTHER -> g

\* Watcher.handleEvent; the watch added for a new directory changes no Graph
handleEvent(g, tree, event, readOK) ==
    IF shouldIgnore(event.Name) THEN g
    ELSE CASE event.Op = OpCreate ->
                  IF IsDir(tree, event.Name) THEN g
                  ELSE analyzeFile(g, tree, event.Name, readOK)
           [] event.Op = OpWrite -> analyzeFile(g, tree, event.Name, readOK)
           [] event.Op \in {OpRemove, OpRename} -> GraphRemoveNode(g, event.Name, TRUE)
           [] OTHER -> g

\* whether handleEvent reached the Analyzer or the Graph
Handled(tree, event, readOK) ==
    /\ ~shouldIgnore(event.Name)
    /\ \/ event.Op \in {OpCreate, OpWrite} /\ CanRead(tree, event.Name, readOK)
       \/ event.Op \in {OpRemove, OpRename}

\* bounds of the model: events and errors sent in a run, events not yet received
MaxEvents == 4
MaxQueue == 2

\* the receive of a channel that hands out the newest value first
Receive_Newest(queue) == Len(queue)

\* <-w.watcher.Events: the index in the queue of the event received, the oldest
Receive(queue) == 1

\* the queue without its i-th event
Without(queue, i) == SubSeq(queue, 1, i - 1) \o SubSeq(queue, i + 1, Len(queue))

\* fsnotify sends the events of a change of the tree, unless Close has been
\* called; last keeps, per path, the Op of the event sent last
Send(ev) ==
    IF events.closed THEN [events EXCEPT !.sent = @ + Len(ev)]
    ELSE [events EXCEPT
              !.queue = @ \o ev,
              !.sent = @ + Len(ev),
              !.last = [p \in DOMAIN @ \cup {ev[i].Name : i \in 1..Len(ev)} |->
                            IF \E i \in 1..Len(ev) : ev[i].Name = p
                            THEN (CHOOSE e \in {ev[i] : i \in 1..Len(ev)} : e.Name = p).Op
                            ELSE @[p]]]

CanSend(n) ==
    /\ events.sent + n <= MaxEvents
    /\ Len(events.queue) + n <= MaxQueue

\* a file or a directory is created in the watched tree
FsCreate(path, entry) ==
    /\ path \notin DOMAIN disk
    /\ CanSend(1)
    /\ disk' = Put(disk, path, entry)
    /\ events' = Send(<<Event(path, OpCreate)>>)
    /\ UNCHANGED <<nodes, edges, reverseEdges, store, mu, pc, pending, files, lastOp>>

\* a file of the watched tree is written
FsWrite(path, content) ==
    /\ path \in DOMAIN disk
    /\ ~disk[path].dir
    /\ CanSend(1)
    /\ disk' = Put(disk, path, File(content))
    /\ events' = Send(<<Event(path, OpWrite)>>)
    /\ UNCHANGED <<nodes, edges, reverseEdges, store, mu, pc, pending, files, lastOp>>

\* a file or a directory of the watched tree is deleted
FsRemove(path) ==
    /\ path \in DOMAIN disk
    /\ CanSend(1)
    /\ disk' = Del(disk, path)
    /\ events' = Send(<<Event(path, OpRemove)>>)
    /\ UNCHANGED <<nodes, edges, reverseEdges, store, mu, pc, pending, files, lastOp>>

\* a file or a directory is renamed inside the watched tree: Rename for the
\* old name, Create for the new one
FsRename(path, to) ==
    /\ path \in DOMAIN disk
    /\ to \notin DOMAIN disk
    /\ CanSend(2)
    /\ disk' = Put(Del(disk, path), to, disk[path])
    /\ events' = Send(<<Event(path, OpRename), Event(to, OpCreate)>>)
    /\ UNCHANGED <<nodes, edges, reverseEdges, store, mu, pc, pending, files, lastOp>>

\* fsnotify reports an error on the Errors channel
FsError ==
    /\ ~events.closed
    /\ events.errors = 0
    /\ events.sent < MaxEvents
    /\ events' = [events EXCEPT !.errors = 1, !.sent = @ + 1]
    /\ UNCHANGED <<nodes, edges, reverseEdges, store, mu, pc, pending, files, disk, lastOp>>

\* Watcher.Start: the goroutine of the loop is started
Start ==
    /\ events.loop = "none"
    /\ events' = [events EXCEPT !.loop = "select"]
    /\ UNCHANGED <<nodes, edges, reverseEdges, store, mu, pc, pending, files, disk, lastOp>>

\* Watcher.Close: fsnotify closes the Events and the Errors channel
Close ==
    /\ ~events.closed
    /\ events' = [events EXCEPT !.closed = TRUE]
    /\ UNCHANGED <<nodes, edges, reverseEdges, store, mu, pc, pending, files, disk, lastOp>>

\* a receive that never reports a closed channel
Ok_Always(ch) == TRUE

\* event, ok := <-w.watcher.Events (and err, ok := <-w.watcher.Errors): ok is
\* false once the channel is closed
Ok(ch) == ~ch.closed

\* the loop of Start: an event is received and handleEvent runs on it
LoopEvent(readOK) ==
    /\ events.loop = "select"
    /\ Ok(events)
    /\ events.queue # <<>>
    /\ CanLock(mu)
    /\ LET i == Receive(events.queue)
           event == events.queue[i]
       IN  /\ \E g \in {handleEvent(Cur, disk, event, readOK)} :
                  /\ Install(g)
                  /\ lastOp' = Returned(event.Op, event.Name,
                                        Handled(disk, event, readOK), g.calls, NoRes)
           /\ events' = [events EXCEPT !.queue = Without(@, i)]
           /\ files' = IF ~Handled(disk, event, readOK) THEN files
                       ELSE IF event.Op \in {OpCreate, OpWrite}
                            THEN Put(files, event.Name, disk[event.Name].content)
                            ELSE Del(files, event.Name)
    /\ UNCHANGED <<mu, pc, pending, disk>>

\* the loop of Start: an error is received and logged
LoopError ==
    /\ events.loop = "select"
    /\ Ok(events)
    /\ events.errors > 0
    /\ events' = [events EXCEPT !.errors = 0]
    /\ UNCHANGED <<nodes, edges, reverseEdges, store, mu, pc, pending, files, disk, lastOp>>

\* the loop of Start: a receive on a closed channel, and the goroutine returns
LoopReturn ==
    /\ events.loop = "select"
    /\ ~Ok(events)
    /\ events' = [events EXCEPT !.loop = "returned"]
    /\ UNCHANGED <<nodes, edges, reverseEdges, store, mu, pc, pending, files, disk, lastOp>>

Loop ==
    \/ \E readOK \in BOOLEAN : LoopEvent(readOK)
    \/ LoopError
    \/ LoopReturn

----------------------------------------------------------------------------
(* SpecWatcher: the loop on a tree that is empty when the watches are set, *)
(* the Graph Store-backed                                                  *)

\* a file that no event is handled for
IgnoredFile == <<"node_modules", "a.ts">>

WatchedPaths == {DomainFile, InfrastructureBare, IgnoredFile}

\* what a path of the tree can hold
TreeEntries(path) ==
    CASE path = DomainFile ->
             {File(NoContent), File(Content(<<ImportInfrastructure>>, <<>>, <<>>))}
      [] path = InfrastructureBare -> {File(NoContent), Directory}
      [] OTHER -> {File(NoContent)}

NextWatcher ==
    \/ \E path \in WatchedPaths : \E entry \in TreeEntries(path) : FsCreate(path, entry)
    \/ \E path \in WatchedPaths : \E entry \in TreeEntries(path) :
           FsWrite(path, entry.content)
    \/ \E path \in WatchedPaths : FsRemove(path)
    \/ \E path \in WatchedPaths, to \in WatchedPaths : FsRename(path, to)
    \/ FsError
    \/ Start
    \/ Close
    \/ Loop

SpecWatcher == Init /\ [][NextWatcher]_vars

\* the goroutine of the loop is scheduled again and again
SpecWatcherFair == SpecWatcher /\ WF_vars(Loop)

----------------------------------------------------------------------------
(* SpecIgnore: the loop on files inside and outside the excluded           *)
(* directories, every read succeeding                                      *)

\* config.DefaultConfig.PersistenceDir
PersistenceDir == ".hexanorm"

RebuildFile == <<"src", "domain", "rebuild.ts">>
DatabaseFile == <<PersistenceDir, "hexanorm.db">>

IgnorePaths == {DomainFile, IgnoredFile, RebuildFile, DatabaseFile}

NextIgnore ==
    \/ \E path \in IgnorePaths : FsCreate(path, File(NoContent))
    \/ \E path \in IgnorePaths : FsWrite(path, NoContent)
    \/ \E path \in IgnorePaths : FsRemove(path)
    \/ Start
    \/ LoopEvent(TRUE)

SpecIgnore == Init /\ [][NextIgnore]_vars

----------------------------------------------------------------------------
(* SpecServer: the tasks of the running server.  main runs NewServer (the   *)
(* crawl of scanDirectory, the startup IndexStepDefinitions, NewWatcher and *)
(* Start) and then serves; watcher is the goroutine of the loop; h1 and h2  *)
(* run handlers of the tool index_step_definitions.  AnalyzeFile and        *)
(* IndexStepDefinitions are taken in two steps, entry and return, so that   *)
(* two executions can be seen to overlap; the resolver caches tsConfigs and *)
(* goMods are read and written by a task while it is at "AnalyzeFile"       *)

ServerTasks == {"main", "watcher", "h1", "h2"}
Handlers == {"h1", "h2"}

\* a running execution of an Analyzer entry point: AnalyzeFile with its path
\* and content, IndexStepDefinitions with the nodes GetAllNodes returned
Running(op, id, content, seen) == [op |-> op, id |-> id, content |-> content, seen |-> seen]

NoRun == Running("", NoId, NoContent, EmptyMap)

\* filepath.Walk over the paths of the model: lexical order
WalkOrder == <<FeatureFile, IgnoredFile, DomainFile, InfrastructureBare, StepsFile>>

\* scanDirectory: the directories node_modules and .git are skipped
Skipped(path) == \E i \in 1..(Len(path) - 1) : path[i] \in {"node_modules", ".git"}

\* the tree the server is started on
ServerTree ==
    (FeatureFile :> File(Content(<<>>, <<>>, <<Line("Feature", "Login", <<>>),
                                           Line("Scenario", "S1", <<>>),
                                           Line("step", "", StepLeave)>>)))
    @@ (StepsFile :> File(Content(<<>>, <<StepDefFound("they", "When", 2)>>, <<>>)))
    @@ (IgnoredFile :> File(NoContent))

\* NewStore, NewGraph and NewAnalyzer of NewServer on a fresh directory
InitServer ==
    /\ nodes = EmptyMap
    /\ edges = EmptyMap
    /\ reverseEdges = EmptyMap
    /\ store = EmptyStore(TRUE)
    /\ mu = NoTask
    /\ pc = [t \in ServerTasks |-> IF t = "main" THEN "scan" ELSE "idle"]
    /\ pending = [t \in ServerTasks |-> NoRun]
    /\ files = EmptyMap
    /\ disk = ServerTree
    /\ events = NoEvents
    /\ lastOp = Returned("NewGraph", NoId, TRUE, <<"LoadAll">>, NoRes)

\* the files the walk of scanDirectory has still to visit
ToScan ==
    {i \in 1..Len(WalkOrder) :
         /\ CanRead(disk, WalkOrder[i], TRUE)
         /\ ~Skipped(WalkOrder[i])
         /\ WalkOrder[i] \notin DOMAIN files}

\* the entry points that write to the Graph
Mutators == {"AnalyzeFile", "IndexStepDefinitions"}

\* a task enters AnalyzeFile(path, content)
Enter(t, path, content) ==
    /\ pc' = [pc EXCEPT ![t] = "AnalyzeFile"]
    /\ pending' = [pending EXCEPT ![t] = Running("AnalyzeFile", path, content, EmptyMap)]

\* scanDirectory: the walk reads the next file and calls AnalyzeFile
ScanFile ==
    /\ pc["main"] = "scan"
    /\ ToScan # {}
    /\ LET path == WalkOrder[CHOOSE i \in ToScan : \A j \in ToScan : i <= j]
       IN  Enter("main", path, disk[path].content)
    /\ UNCHANGED <<nodes, edges, reverseEdges, store, mu, files, disk, events, lastOp>>

\* AnalyzeFile returns to the walk or to the loop, its Graph calls made
AnalyzeFileReturn(t) ==
    /\ pc[t] = "AnalyzeFile"
    /\ CanLock(mu)
    /\ \E g \in {AnalyzerAnalyzeFile(Cur, pending[t].id, pending[t].content)} :
           /\ Install(g)
           /\ lastOp' = Returned("AnalyzeFile", pending[t].id, TRUE, g.calls, NoRes)
    /\ files' = Put(files, pending[t].id, pending[t].content)
    /\ pc' = [pc EXCEPT ![t] = IF t = "main" THEN "scan" ELSE "idle"]
    /\ pending' = [pending EXCEPT ![t] = NoRun]
    /\ UNCHANGED <<mu, disk, events>>

\* a task enters IndexStepDefinitions: the two filterNodes calls
EnterIndex(t) ==
    /\ pc' = [pc EXCEPT ![t] = "IndexStepDefinitions"]
    /\ pending' = [pending EXCEPT ![t] = Running("IndexStepDefinitions", NoId, NoContent, nodes)]
    /\ UNCHANGED <<nodes, edges, reverseEdges, store, mu, files, disk, events, lastOp>>

\* NewServer: the walk is over, an.IndexStepDefinitions() is called
StartupIndex ==
    /\ pc["main"] = "scan"
    /\ ToScan = {}
    /\ EnterIndex("main")

\* IndexStepDefinitions returns, its AddEdge calls made for the nodes it saw
IndexReturn(t) ==
    /\ pc[t] = "IndexStepDefinitions"
    /\ CanLock(mu)
    /\ LET seen == [Cur EXCEPT !.nodes = pending[t].seen]
       IN  \E scOrder \in Orderings(filterNodes(seen, NodeKindGherkinScenario)),
              sdOrder \in Orderings(filterNodes(seen, NodeKindStepDefinition)) :
             \E g \in {AnalyzerIndexStepDefinitions(seen, scOrder, sdOrder)} :
                   /\ edges' = g.edges
                   /\ reverseEdges' = g.reverseEdges
                   /\ store' = g.store
                   /\ lastOp' = Returned("IndexStepDefinitions", NoId, TRUE, g.calls, NoRes)
    /\ pc' = [pc EXCEPT ![t] = IF t = "main" THEN "start" ELSE "idle"]
    /\ pending' = [pending EXCEPT ![t] = NoRun]
    /\ UNCHANGED <<nodes, mu, files, disk, events>>

\* NewServer reaching w.Start() before the crawl and the index pass are over
CanStart_Early(at) == at # "serving"

\* NewServer: NewWatcher and w.Start() come after scanDirectory and
\* IndexStepDefinitions have returned
CanStart(at) == at = "start"

\* requests served while NewServer is still running
Serving_Early(at) == TRUE

\* main: server.Run is called with the server NewServer returned, and only
\* then a request reaches a handler
Serving(at) == at = "serving"

\* NewServer: NewWatcher and Start; NewServer returns and main calls Run
StartWatcher ==
    /\ CanStart(pc["main"])
    /\ events.loop = "none"
    /\ events' = [events EXCEPT !.loop = "select"]
    /\ pc' = [pc EXCEPT !["main"] = IF pc["main"] = "start" THEN "serving" ELSE @]
    /\ UNCHANGED <<nodes, edges, reverseEdges, store, mu, pending, files, disk, lastOp>>

\* the loop receives an event: handleEvent as far as the call of AnalyzeFile
ServerLoopEvent(readOK) ==
    /\ events.loop = "select"
    /\ pc["watcher"] = "idle"
    /\ Ok(events)
    /\ events.queue # <<>>
    /\ CanLock(mu)
    /\ LET event == events.queue[Receive(events.queue)]
           analyse == /\ Handled(disk, event, readOK)
                      /\ event.Op \in {OpCreate, OpWrite}
       IN  /\ events' = [events EXCEPT !.queue = Without(@, Receive(events.queue))]
           /\ IF analyse
              THEN /\ Enter("watcher", event.Name, disk[event.Name].content)
                   /\ UNCHANGED <<nodes, edges, reverseEdges, store, files, lastOp>>
              ELSE /\ \E g \in {handleEvent(Cur, disk, event, readOK)} :
                          /\ Install(g)
                          /\ lastOp' = Returned(event.Op, event.Name,
                                                Handled(disk, event, readOK), g.calls, NoRes)
                   /\ files' = IF Handled(disk, event, readOK)
                               THEN Del(files, event.Name) ELSE files
                   /\ UNCHANGED <<pc, pending>>
    /\ UNCHANGED <<mu, disk>>

\* a request for the tool index_step_definitions reaches its handler
ToolIndex(t) ==
    /\ Serving(pc["main"])
    /\ pc[t] = "idle"
    /\ EnterIndex(t)

\* the file that changes while the server runs
ServedPaths == {StepsFile}

NextServer ==
    \/ ScanFile
    \/ StartupIndex
    \/ StartWatcher
    \/ \E t \in {"main", "watcher"} : AnalyzeFileReturn(t)
    \/ \E t \in ServerTasks \ {"watcher"} : IndexReturn(t)
    \/ \E t \in Handlers : ToolIndex(t)
    \/ \E readOK \in BOOLEAN : ServerLoopEvent(readOK)
    \/ \E path \in ServedPaths :
           events.loop # "none" /\ FsCreate(path, File(NoContent))
    \/ \E path \in ServedPaths, content \in StepsContents :
           events.loop # "none" /\ FsWrite(path, content)
    \/ \E path \in ServedPaths : events.loop # "none" /\ FsRemove(path)

SpecServer == InitServer /\ [][NextServer]_vars

----------------------------------------------------------------------------
(* Properties of the Graph and its Store (Spec)                            *)

\* the entries of an index, as a set
Entries(index) == UNION {SeqToSet(index[k]) : k \in DOMAIN index}

\* C1: adjacency symmetry.  Every entry of the forward index lies in the bucket
\* of its source and is also an entry of the reverse bucket of its target, and
\* every entry of the reverse index lies in the bucket of its target and is also
\* an entry of the forward bucket of its source.
C1_AdjacencySymmetry ==
    /\ \A k \in DOMAIN edges : \A i \in 1..Len(edges[k]) :
           /\ edges[k][i].SourceID = k
           /\ edges[k][i] \in SeqToSet(Get(reverseEdges, edges[k][i].TargetID))
    /\ \A k \in DOMAIN reverseEdges : \A i \in 1..Len(reverseEdges[k]) :
           /\ reverseEdges[k][i].TargetID = k
           /\ reverseEdges[k][i] \in SeqToSet(Get(edges, reverseEdges[k][i].SourceID))

\* a RemoveNode that removed a node has returned and edges are left
C1_Witness ==
    /\ lastOp.op = "RemoveNode"
    /\ lastOp.acted
    /\ NumEdges(edges) >= 1

\* no entry of either index, and no row of the Store, mentions x
NoEdgeOf(x) ==
    \A e \in Entries(edges) \cup Entries(reverseEdges) : e.SourceID # x /\ e.TargetID # x

NoRowOf(x) ==
    /\ x \notin DOMAIN store.nodes
    /\ \A e \in store.edges : e.SourceID # x /\ e.TargetID # x

C4_RemoveAbsentIsNoop ==
    [][(lastOp'.op = "RemoveNode" /\ lastOp'.id \notin DOMAIN nodes)
         => /\ nodes' = nodes
            /\ edges' = edges
            /\ reverseEdges' = reverseEdges
            /\ store' = store
            /\ lastOp'.calls = <<>>]_vars

\* RemoveNode has returned early for an id that edges and Store rows mention
C4_Witness ==
    /\ lastOp.op = "RemoveNode"
    /\ ~lastOp.acted
    /\ ~NoEdgeOf(lastOp.id)
    /\ \E e \in store.edges : e.TargetID = lastOp.id

\* what the persistence round trip compares: id, kind and metadata of a node
NodeFace(n) == [ID |-> n.ID, Kind |-> n.Kind, Metadata |-> n.Metadata]

\* C5: a step that closes the Store and constructs a new Graph on it yields the
\* ids the node table had, each with the kind and metadata it had, and in both
\* indexes the set of (source, target, type) edges they had.
C5_PersistenceRoundTrip ==
    [][lastOp'.op = "NewGraph"
         => /\ DOMAIN nodes' = DOMAIN nodes
            /\ \A id \in DOMAIN nodes : NodeFace(nodes'[id]) = NodeFace(nodes[id])
            /\ Entries(edges') = Entries(edges)
            /\ Entries(reverseEdges') = Entries(reverseEdges)]_vars

\* a Graph was reloaded from a Store holding nodes with and without metadata and
\* an edge, after a node had been removed
C5_Witness ==
    /\ lastOp.op = "NewGraph"
    /\ <<"n1">> \in DOMAIN nodes
    /\ ~nodes[<<"n1">>].Metadata.nil
    /\ <<"n2">> \in DOMAIN nodes
    /\ nodes[<<"n2">>].Properties.kv["line"].t = "float64"
    /\ Entries(edges) # {}

----------------------------------------------------------------------------
(* Properties of the impact query (SpecBlast)                              *)

\* the ids with an impact edge into one of the ids of S
ImpactSources(S) ==
    {e.SourceID : e \in {x \in Entries(reverseEdges) : x.TargetID \in S /\ IsImpactKind(x.Type)}}

\* S closed under ImpactSources
RECURSIVE ImpactClosure(_)
ImpactClosure(S) ==
    IF ImpactSources(S) \subseteq S THEN S ELSE ImpactClosure(S \cup ImpactSources(S))

\* the ids from which a chain of one or more impact edges leads to codeID
ReachableFrom(codeID) == ImpactSources(ImpactClosure({codeID}))

NoRepeat(list) == \A i, j \in 1..Len(list) : list[i] = list[j] => i = j

\* C6: blast-radius soundness.  Every id of the first returned list is a node of
\* kind Feature, every id of the second a node of kind Requirement, each is
\* reachable from the start id along reverse edges of type implemented-by,
\* defines or calls alone, and neither list holds an id twice.
C6_BlastRadiusSound ==
    lastOp.op = "BlastRadius" =>
        /\ \A id \in SeqToSet(lastOp.res.features) :
               /\ id \in DOMAIN nodes
               /\ nodes[id].Kind = NodeKindFeature
               /\ id \in ReachableFrom(lastOp.id)
        /\ \A id \in SeqToSet(lastOp.res.requirements) :
               /\ id \in DOMAIN nodes
               /\ nodes[id].Kind = NodeKindRequirement
               /\ id \in ReachableFrom(lastOp.id)
        /\ NoRepeat(lastOp.res.features)
        /\ NoRepeat(lastOp.res.requirements)

\* a query returned a requirement while an imports edge leads to the start id
\* from a node that it did not return
C6_Witness ==
    /\ lastOp.op = "BlastRadius"
    /\ lastOp.res.requirements # <<>>
    /\ \E e \in Entries(reverseEdges) :
           /\ e.TargetID = lastOp.id
           /\ e.Type = EdgeTypeImports
           /\ e.SourceID \in DOMAIN nodes
           /\ nodes[e.SourceID].Kind = NodeKindFeature
           /\ e.SourceID \notin SeqToSet(lastOp.res.features)

\* C7 as claimed: blast-radius completeness.  Every Feature node and every
\* Requirement node, other than the start id, from which a chain of reverse
\* edges of type implemented-by, defines or calls leads to the start id is in
\* the returned list of its kind, whatever the ids on the chain are.
C7_BlastRadiusComplete ==
    lastOp.op = "BlastRadius" =>
        \A id \in (ReachableFrom(lastOp.id) \cap DOMAIN nodes) \ {lastOp.id} :
            /\ nodes[id].Kind = NodeKindFeature => id \in SeqToSet(lastOp.res.features)
            /\ nodes[id].Kind = NodeKindRequirement => id \in SeqToSet(lastOp.res.requirements)

----------------------------------------------------------------------------
(* Properties of concurrent AddEdge calls (SpecLock)                       *)

\* C2: no duplicate edges.  No bucket of the forward index and no bucket of the
\* reverse index holds a (source, target, type) triple twice, and the step in
\* which a task's AddEdge finds its triple in the forward bucket changes neither
\* index nor the Store, calls no Store method, and returns.
C2_NoDuplicateEdges ==
    /\ [](/\ \A k \in DOMAIN edges : NoRepeat(edges[k])
          /\ \A k \in DOMAIN reverseEdges : NoRepeat(reverseEdges[k]))
    /\ [][\A t \in Tasks :
            (pc[t] = "scan" /\ pc'[t] # "scan" /\ HasEdge(Cur, pending[t].edge))
              => /\ edges' = edges
                 /\ reverseEdges' = reverseEdges
                 /\ store' = store
                 /\ pc'[t] = "idle"
                 /\ lastOp'.op = "AddEdge"
                 /\ lastOp'.calls = <<>>]_vars

\* both tasks called AddEdge with one triple; the first call added it and the
\* second has returned without adding it
C2_Witness ==
    /\ lastOp.op = "AddEdge"
    /\ ~lastOp.acted
    /\ \A t \in Tasks : pc[t] = "idle"
    /\ NumEdges(edges) = 1
    /\ Cardinality(store.edges) = 1

----------------------------------------------------------------------------
(* Properties of the architecture rules (SpecAnalyzer)                     *)

\* FindViolations returned an arch-layer-violation of this severity for file
Reported(severity, file) ==
    \E i \in 1..Len(lastOp.res.violations) :
        /\ lastOp.res.violations[i].Severity = severity
        /\ lastOp.res.violations[i].Kind = ViolationKindArchLayer
        /\ lastOp.res.violations[i].File = file

\* path has been analysed, the last time with a content that imports importStr
AnalysedImporting(path, importStr) ==
    path \in DOMAIN files /\ importStr \in SeqToSet(files[path].imports)

\* C8: when src/domain/a.ts, importing "../infrastructure/b", and
\* src/infrastructure/b.ts have both been analysed, whatever else was analysed
\* and in whatever order, FindViolations returns a critical
\* arch-layer-violation whose file is src/domain/a.ts.
C8_DomainImportsInfrastructure ==
    (/\ lastOp.op = "FindViolations"
     /\ AnalysedImporting(DomainFile, ImportInfrastructure)
     /\ InfrastructureFile \in DOMAIN files)
        => Reported(SeverityCritical, DomainFile)

\* FindViolations has reported the domain file after it and the infrastructure
\* file were analysed, the imported id having no node
C8_Witness ==
    /\ lastOp.op = "FindViolations"
    /\ AnalysedImporting(DomainFile, ImportInfrastructure)
    /\ InfrastructureFile \in DOMAIN nodes
    /\ InfrastructureBare \notin DOMAIN nodes
    /\ Reported(SeverityCritical, DomainFile)

\* C9 as claimed: when src/application/a.ts, importing "../infrastructure/b",
\* and src/infrastructure/b.ts have both been analysed, FindViolations returns
\* a warning arch-layer-violation whose file is src/application/a.ts.
C9_ApplicationImportsInfrastructure ==
    (/\ lastOp.op = "FindViolations"
     /\ AnalysedImporting(ApplicationFile, ImportInfrastructure)
     /\ InfrastructureFile \in DOMAIN files)
        => Reported(SeverityWarning, ApplicationFile)

\* C10 as claimed: for every imports edge from a Code node of layer domain to a
\* node present with layer application, infrastructure or interface,
\* FindViolations returns an arch-layer-violation whose file is the importer.
C10_DomainImportsOnlyDomain ==
    lastOp.op = "FindViolations"
        => \A e \in Entries(edges) :
               (/\ e.Type = EdgeTypeImports
                /\ e.SourceID \in DOMAIN nodes
                /\ nodes[e.SourceID].Kind = NodeKindCode
                /\ HasLayer(nodes[e.SourceID])
                /\ LayerOf(nodes[e.SourceID]) = "domain"
                /\ e.TargetID \in DOMAIN nodes
                /\ HasLayer(nodes[e.TargetID])
                /\ LayerOf(nodes[e.TargetID]) \in {"application", "infrastructure", "interface"})
                   => \E i \in 1..Len(lastOp.res.violations) :
                          /\ lastOp.res.violations[i].Kind = ViolationKindArchLayer
                          /\ lastOp.res.violations[i].File = e.SourceID

----------------------------------------------------------------------------
(* Properties of the drift pass and of the step index (SpecBDD)            *)

\* the raw step lines a scenario node holds, whatever Go type holds them
StepsOf(sc) == SeqToSet(sc.Properties.kv["steps"].l)

\* some StepDefinition node has a pattern that matches the step without its keyword
SomePatternMatches(step) ==
    \E id \in DOMAIN nodes :
        /\ nodes[id].Kind = NodeKindStepDefinition
        /\ matchStep(Tail(step), nodes[id].Properties.kv["regex_pattern"].s)

\* FindViolations returned a bdd-drift warning for this step of this scenario,
\* with the scenario's file and line
DriftReported(sc, step) ==
    \E i \in 1..Len(lastOp.res.violations) :
        LET v == lastOp.res.violations[i]
        IN  /\ v.Kind = ViolationKindBDDDrift
            /\ v.Severity = SeverityWarning
            /\ v.Message = <<"BDD Drift/Missing", step, sc.ID>>
            /\ v.File = sc.Properties.kv["file"].l
            /\ v.Line = sc.Properties.kv["line"].n

\* C11 as claimed: for every GherkinScenario node and every raw step line of
\* it, FindViolations returns a bdd-drift warning for the step, with the
\* scenario's file and line, exactly when no StepDefinition node has a pattern
\* that matches the step text without its leading keyword.
C11_DriftExactlyWhenUnmatched ==
    lastOp.op = "FindViolations"
        => \A id \in DOMAIN nodes :
               nodes[id].Kind = NodeKindGherkinScenario
                   => \A step \in StepsOf(nodes[id]) :
                          DriftReported(nodes[id], step) <=> ~SomePatternMatches(step)
\* some step of scenario node sc matches the pattern of step definition node sd
SomeStepMatches(sc, sd) ==
    \E step \in StepsOf(sc) : matchStep(Tail(step), sd.Properties.kv["regex_pattern"].s)

\* C12 as claimed: a step that is IndexStepDefinitions leaves, for every
\* GherkinScenario S and StepDefinition D present at the call with some step
\* of S matching D's pattern, the executes edge S -> D in the graph; it removes
\* no edge; run right after another IndexStepDefinitions it changes nothing;
\* and no step other than RemoveNode of S or of D removes an executes edge S -> D.
C12_IndexLinksNeverUnlinks ==
    /\ [][lastOp'.op = "IndexStepDefinitions"
            => /\ \A sc \in DOMAIN nodes, sd \in DOMAIN nodes :
                      (/\ nodes[sc].Kind = NodeKindGherkinScenario
                       /\ nodes[sd].Kind = NodeKindStepDefinition
                       /\ SomeStepMatches(nodes[sc], nodes[sd]))
                          => /\ Edge(sc, sd, EdgeTypeExecutes) \in Entries(edges')
                             /\ Edge(sc, sd, EdgeTypeExecutes) \in Entries(reverseEdges')
               /\ Entries(edges) \subseteq Entries(edges')
               /\ Entries(reverseEdges) \subseteq Entries(reverseEdges')
               /\ lastOp.op = "IndexStepDefinitions"
                      => /\ nodes' = nodes
                         /\ edges' = edges
                         /\ reverseEdges' = reverseEdges
                         /\ store' = store]_vars
    /\ [][\A e \in Entries(edges) :
              (/\ e.Type = EdgeTypeExecutes
               /\ ~(lastOp'.op = "RemoveNode" /\ lastOp'.id \in {e.SourceID, e.TargetID}))
                  => e \in Entries(edges') /\ e \in Entries(reverseEdges')]_vars

----------------------------------------------------------------------------
(* Properties of link_requirement (SpecLink)                               *)

\* C13 as claimed: after link_requirement(file_path, req_id) has returned, a
\* node with id req_id and kind Requirement exists, the edge (req_id,
\* file_path, implemented-by) is in both indexes, and a node req_id that
\* existed before the call has the properties it had.
C13_LinkEnsuresRequirement ==
    [][lastOp'.op = "LinkRequirement"
         => LET reqID == lastOp'.res.text[2]
                filePath == lastOp'.res.text[3]
            IN  /\ reqID \in DOMAIN nodes'
                /\ nodes'[reqID].Kind = NodeKindRequirement
                /\ Edge(reqID, filePath, EdgeTypeImplementedBy) \in Entries(edges')
                /\ Edge(reqID, filePath, EdgeTypeImplementedBy) \in Entries(reverseEdges')
                /\ reqID \in DOMAIN nodes
                       => nodes'[reqID].Properties = nodes[reqID].Properties]_vars

----------------------------------------------------------------------------
(* Properties of the Watcher (SpecWatcher, SpecWatcherFair)                *)

\* the step is the loop's handling of a Remove or Rename event for a path that
\* is not ignored; lastOp' names the event
RemovalHandled ==
    /\ Len(events'.queue) < Len(events.queue)
    /\ lastOp'.op \in {OpRemove, OpRename}
    /\ ~shouldIgnore(lastOp'.id)

\* every node other than p is as it was, and no node has appeared
OthersUnchanged(p) ==
    /\ DOMAIN nodes' \ {p} = DOMAIN nodes \ {p}
    /\ \A q \in DOMAIN nodes \ {p} : nodes'[q] = nodes[q]

\* C14 as claimed: when the loop has handled a Remove or Rename event for a path
\* p that is not ignored, the graph holds no node p and no edge with p as source
\* or target, and every node other than p is as it was before.
C14_RemovedPathGone ==
    [][RemovalHandled
         => /\ lastOp'.id \notin DOMAIN nodes'
            /\ (NoEdgeOf(lastOp.id))'
            /\ OthersUnchanged(lastOp'.id)]_vars

\* C14 as amended: after the event is handled the graph holds no node p and
\* every other node is as it was; if p had a node, no edge with p as source or
\* target is left, and if p had none (a directory, a path that only imports
\* name) both indexes and the Store are as they were.
C14_RemovedNodeGone ==
    [][RemovalHandled
         => /\ lastOp'.id \notin DOMAIN nodes'
            /\ OthersUnchanged(lastOp'.id)
            /\ IF lastOp'.id \in DOMAIN nodes
               THEN (NoEdgeOf(lastOp.id))'
               ELSE edges' = edges /\ reverseEdges' = reverseEdges /\ store' = store]_vars

\* the loop has removed the node of a deleted file that another file, still a
\* node, imports
C14_Witness ==
    /\ lastOp.op = OpRemove
    /\ lastOp.id = InfrastructureBare
    /\ lastOp.calls = <<"DeleteNode">>
    /\ DomainFile \in DOMAIN nodes
    /\ DomainFile \in DOMAIN files
    /\ files[DomainFile].imports # <<>>
    /\ NoEdgeOf(InfrastructureBare)

\* scanDirectory: one AnalyzeFile per readable file, in the order of the walk
RECURSIVE scanDirectory(_, _, _)
scanDirectory(g, tree, walk) ==
    IF walk = <<>> THEN g
    ELSE scanDirectory(IF CanRead(tree, Head(walk), TRUE) /\ ~Skipped(Head(walk))
                       THEN AnalyzerAnalyzeFile(g, Head(walk), tree[Head(walk)].content)
                       ELSE g,
                       tree, Tail(walk))

\* the file tree analysed from an empty graph
FromScratch(tree) ==
    scanDirectory(GraphState(EmptyMap, EmptyMap, EmptyMap, EmptyStore(FALSE)),
                  tree, WalkOrder)

\* the Code nodes of a graph, its imports edges, and what FindViolations returns
CodeNodes(g) == {g.nodes[id] : id \in {x \in DOMAIN g.nodes : g.nodes[x].Kind = NodeKindCode}}

ImportEdges(g) ==
    {e \in UNION {SeqToSet(g.edges[k]) : k \in DOMAIN g.edges} : e.Type = EdgeTypeImports}

ViolationsOf(g) ==
    SeqToSet(AnalyzerFindViolations(g, CHOOSE o \in Orderings(DOMAIN g.nodes) : TRUE)
             \o DriftViolations(g, CHOOSE o \in Orderings(filterNodes(g, NodeKindGherkinScenario)) : TRUE))

\* every event sent has been handled by the running loop
AllHandled ==
    /\ events.queue = <<>>
    /\ events.loop = "select"
    /\ ~events.closed

\* C15: once the loop has handled every event of a sequence of creations,
\* writes, removals and renames, the Code nodes, the imports edges and the
\* violations of the graph are those of the final tree analysed from an empty
\* graph.
C15_IncrementalEqualsScratch ==
    (AllHandled /\ events.sent > 0)
        => /\ CodeNodes(Cur) = CodeNodes(FromScratch(disk))
           /\ ImportEdges(Cur) = ImportEdges(FromScratch(disk))
           /\ ViolationsOf(Cur) = ViolationsOf(FromScratch(disk))

\* no event for path f waits on the channel
NoneQueued(f) == \A i \in 1..Len(events.queue) : events.queue[i].Name # f

\* C16: a step of the loop takes exactly the oldest event off the channel and
\* handles that one; and when the event sent last for a file f was its Remove
\* (or Rename) and every event for f has been handled, the graph holds no node f.
C16_ArrivalOrder ==
    /\ [][Len(events'.queue) < Len(events.queue)
            => /\ events'.queue = Tail(events.queue)
               /\ lastOp'.op = Head(events.queue).Op
               /\ lastOp'.id = Head(events.queue).Name]_vars
    /\ [](\A f \in DOMAIN events.last :
              (events.last[f] \in {OpRemove, OpRename} /\ NoneQueued(f))
                  => f \notin DOMAIN nodes)

\* Create, Write and Remove of src/domain/a.ts, and nothing else, have been sent
\* and handled, the Remove deleting the node the earlier events made
C16_Witness ==
    /\ events.sent = 3
    /\ events.errors = 0
    /\ DOMAIN events.last = {DomainFile}
    /\ events.last[DomainFile] = OpRemove
    /\ events.queue = <<>>
    /\ disk = EmptyMap
    /\ lastOp.op = OpRemove
    /\ lastOp.calls = <<"DeleteNode">>
    /\ DomainFile \notin DOMAIN nodes

\* the number of events and errors the loop has received
Received == events.sent - Len(events.queue) - events.errors

\* the loop has just handled a Create or Write event whose file it could not
\* read
ReadFailed ==
    /\ lastOp.op \in {OpCreate, OpWrite}
    /\ ~lastOp.acted
    /\ ~shouldIgnore(lastOp.id)

\* C17: a step of the loop that handles a Create or Write event whose read
\* fails leaves node table, both indexes and the Store as they were and leaves
\* the loop running; and whatever is on the channels after such a failure is
\* received by the loop too, unless Close is called first.
C17_ErrorsSwallowed ==
    /\ [][(Len(events'.queue) < Len(events.queue) /\ ReadFailed')
            => /\ nodes' = nodes
               /\ edges' = edges
               /\ reverseEdges' = reverseEdges
               /\ store' = store
               /\ lastOp'.calls = <<>>
               /\ events'.loop = "select"]_vars
    /\ \A n \in 1..MaxEvents :
           (ReadFailed /\ events.sent >= n) ~> (Received >= n \/ events.closed)

\* after a failed read of src/domain/a.ts the loop has analysed another file
C17_Witness ==
    /\ lastOp.op = OpCreate
    /\ lastOp.acted
    /\ lastOp.id = InfrastructureBare
    /\ DomainFile \in DOMAIN disk
    /\ DomainFile \notin DOMAIN nodes
    /\ events.last = (DomainFile :> OpCreate) @@ (InfrastructureBare :> OpCreate)
    /\ events.queue = <<>>
    /\ events.sent = 2

\* C18: once Close has closed the channels under a running loop, the loop
\* returns; and from a state where it has returned, no step changes the node
\* table, an index, the Store or the record of the last call, nor does the loop
\* run again.
C18_Shutdown ==
    /\ (events.closed /\ events.loop = "select") ~> (events.loop = "returned")
    /\ [][events.loop = "returned"
            => /\ nodes' = nodes
               /\ edges' = edges
               /\ reverseEdges' = reverseEdges
               /\ store' = store
               /\ lastOp' = lastOp
               /\ events'.loop = "returned"]_vars

\* the loop has returned, and a file deleted since then still has its node
C18_Witness ==
    /\ events.loop = "returned"
    /\ events.queue = <<>>
    /\ DomainFile \in DOMAIN nodes
    /\ DomainFile \notin DOMAIN disk

----------------------------------------------------------------------------
(* Properties of the running server (SpecServer)                           *)

\* task t is inside a mutating entry point of the Analyzer
Mutating(t) == pc[t] \in Mutators

\* C19 as claimed: no two tasks are inside AnalyzeFile or IndexStepDefinitions
\* at the same time.
C19_MutatorsSerialized ==
    \A t \in ServerTasks, u \in ServerTasks :
        (Mutating(t) /\ Mutating(u)) => t = u

\* C19 as amended: no two tasks are inside AnalyzeFile at the same time, and
\* while NewServer runs its crawl and its startup IndexStepDefinitions no other
\* task is inside an entry point; two executions overlap only when one of them
\* is an IndexStepDefinitions run by a handler of the tool.
C19_OverlapOnlyWithToolIndex ==
    \A t \in ServerTasks, u \in ServerTasks :
        (Mutating(t) /\ Mutating(u) /\ t # u)
            => /\ "main" \notin {t, u}
               /\ \E h \in {t, u} \cap Handlers : pc[h] = "IndexStepDefinitions"

\* the loop is inside AnalyzeFile for a changed file while a handler of the
\* tool runs IndexStepDefinitions
C19_Witness ==
    /\ pc["watcher"] = "AnalyzeFile"
    /\ pc["h1"] = "IndexStepDefinitions"
    /\ pc["main"] = "serving"

\* the tasks that can be reading or writing tsConfigs and goMods
CacheUsers == {t \in ServerTasks : pc[t] = "AnalyzeFile"}

\* C20: at most one task is inside AnalyzeFile, the one place where the caches
\* are read and written, and the loop has not been started while the crawl is
\* still running.
C20_CachesRaceFree ==
    /\ Cardinality(CacheUsers) <= 1
    /\ pc["main"] \in {"scan", "AnalyzeFile", "IndexStepDefinitions"}
           => events.loop = "none" /\ CacheUsers \subseteq {"main"}

\* the loop is inside AnalyzeFile after the crawl has analysed its files
C20_Witness ==
    /\ CacheUsers = {"watcher"}
    /\ StepsFile \in DOMAIN files
    /\ FeatureFile \in DOMAIN files
    /\ pending["watcher"].id = StepsFile

----------------------------------------------------------------------------
(* Properties of the Store calls of concurrent Graph methods (SpecStore)   *)

\* the step calls a Store method
CallsStore == lastOp' # lastOp /\ lastOp'.calls # <<>>

\* the step is taken by a task that holds the exclusive lock and is at its
\* Store call
ByLockHolder == \E t \in Tasks : mu = t /\ pc[t] = "store" /\ pc'[t] = "idle"

\* the rows of the Store are the tables in memory
StoreAgrees ==
    /\ DOMAIN store.nodes = DOMAIN nodes
    /\ \A id \in DOMAIN nodes : store.nodes[id].kind = nodes[id].Kind
    /\ store.edges = Entries(edges)

\* C21 as claimed: every step in which the Graph calls a Store method, LoadAll
\* among them, is taken by a task that holds the exclusive lock.
C21_StoreCallsUnderLock == [][CallsStore => ByLockHolder]_vars

\* C21 as amended: a step that calls SaveNode, SaveEdge or DeleteNode is taken
\* by the task holding the exclusive lock; LoadAll is called by NewGraph with
\* no lock held, at a time when no method of the Graph is running; and whenever
\* no method is running the rows of the Store are the tables in memory, the
\* Store having received the writes in the order of the changes in memory.
C21_StoreWritesUnderLock ==
    /\ [][CallsStore
            => IF lastOp'.calls = <<"LoadAll">>
               THEN mu = NoTask /\ \A t \in Tasks : pc[t] = "idle"
               ELSE ByLockHolder]_vars
    /\ []((\A t \in Tasks : pc[t] = "idle") => StoreAgrees)

\* a task holds the lock inside RemoveNode: the edges of the node are gone from
\* memory and their rows are still in the Store, DeleteNode not yet called
C21_Witness ==
    /\ pc["t1"] = "store"
    /\ mu = "t1"
    /\ pending["t1"].op = "RemoveNode"
    /\ pc["t2"] = "idle"
    /\ store.edges # {}
    /\ Entries(edges) = {}

----------------------------------------------------------------------------
(* Properties of Store.DeleteNode (SpecTx)                                 *)

\* C22: a step that is Store.DeleteNode(id) either returns nil and leaves no
\* node row id and no edge row with id as source or target, every other row
\* kept, or returns an error and leaves the rows of the Store as they were.
C22_DeleteNodeAtomic ==
    [][lastOp'.op = "Store.DeleteNode"
         => IF lastOp'.acted
            THEN /\ (NoRowOf(lastOp.id))'
                 /\ store'.nodes = Del(store.nodes, lastOp'.id)
                 /\ store'.edges = {e \in store.edges :
                                        e.SourceID # lastOp'.id /\ e.TargetID # lastOp'.id}
            ELSE store' = store]_vars

\* DeleteNode has failed for a node with a row and with edge rows on both
\* sides, and all of them are there
C22_Witness ==
    /\ lastOp.op = "Store.DeleteNode"
    /\ ~lastOp.acted
    /\ lastOp.id = <<"n2">>
    /\ <<"n2">> \in DOMAIN store.nodes
    /\ \E e \in store.edges : e.SourceID = <<"n2">> /\ e.TargetID # <<"n2">>
    /\ \E e \in store.edges : e.TargetID = <<"n2">> /\ e.SourceID # <<"n2">>

----------------------------------------------------------------------------
(* Properties of the read methods (SpecQuery)                              *)

\* C23: a step in which a read method or a resource returns leaves the node
\* table, both indexes and the Store as they were, and so does a step in which
\* the caller writes into a slice that GetEdgesFrom or GetEdgesTo returned.
C23_QueriesReadOnly ==
    [][(lastOp' # lastOp /\ lastOp'.op \in QueryOps \cup {"WriteSlice"})
         => /\ nodes' = nodes
            /\ edges' = edges
            /\ reverseEdges' = reverseEdges
            /\ store' = store]_vars

\* the caller has overwritten the first element of a slice GetEdgesFrom
\* returned, and the bucket still holds the edge
C23_Witness ==
    /\ lastOp.op = "WriteSlice"
    /\ lastOp.id = <<"n1">>
    /\ lastOp.res.out.items[1] = Edge(<<"n3">>, <<"n1">>, EdgeTypeVerifies)
    /\ edges[<<"n1">>][1] # lastOp.res.out.items[1]
    /\ store.edges # {}

----------------------------------------------------------------------------
(* Properties of the life of an edge (SpecEdges)                           *)

\* the edges that a step takes out of either index
Gone(index, after) == Entries(index) \ Entries(after)

\* C24: an edge leaves the forward or the reverse index only in a step of
\* Clear or of RemoveNode on the edge's source or target; AddNode on an id in
\* use and AnalyzeFile on a file analysed before take no edge out.
C24_EdgesLeaveWithEndpoint ==
    [][\A e \in Gone(edges, edges') \cup Gone(reverseEdges, reverseEdges') :
           \/ lastOp'.op = "Clear"
           \/ lastOp'.op = "RemoveNode" /\ lastOp'.id \in {e.SourceID, e.TargetID}]_vars

\* the domain file analysed again without its import: the edge of the first
\* analysis is still there
C24_Witness ==
    /\ lastOp.op = "AnalyzeFile"
    /\ lastOp.id = DomainFile
    /\ files[DomainFile] = NoContent
    /\ Edge(DomainFile, InfrastructureBare, EdgeTypeImports) \in Entries(edges)
    /\ Edge(DomainFile, InfrastructureBare, EdgeTypeImports) \in Entries(reverseEdges)

----------------------------------------------------------------------------
(* Properties of the architecture rules (SpecAnalyzer)                     *)

\* the severity the rule table gives the edge from a Code node with a layer,
\* "" where the table has no row for it
RuleFor(node, edge) ==
    LET L == LayerOf(node)
        T == edge.TargetID
    IN  IF T \notin DOMAIN nodes
        THEN IF LooksLikeInfrastructure(T) /\ L = "domain" THEN SeverityCritical ELSE ""
        ELSE IF ~HasLayer(nodes[T]) THEN ""
        ELSE CASE L = "domain" /\ LayerOf(nodes[T]) \in {"infrastructure", "application"} ->
                      SeverityCritical
               [] L = "application" /\ LayerOf(nodes[T]) = "infrastructure" ->
                      SeverityWarning
               [] OTHER -> ""

\* the imports edges that leave a Code node with a layer
LayeredImports ==
    {e \in Entries(edges) :
         /\ e.Type = EdgeTypeImports
         /\ e.SourceID \in DOMAIN nodes
         /\ nodes[e.SourceID].Kind = NodeKindCode
         /\ HasLayer(nodes[e.SourceID])}

\* the positions of the violations reported for the edge
ReportedFor(violations, edge) ==
    {i \in 1..Len(violations) :
         /\ violations[i].Kind = ViolationKindArchLayer
         /\ violations[i].File = edge.SourceID
         /\ violations[i].Message[2] = edge.SourceID
         /\ violations[i].Message[3] = edge.TargetID}

----------------------------------------------------------------------------
(* Properties of the layer of a Code node (SpecLayer)                      *)

\* the path contains one of the recognized layer segments
InSomeLayer(path) ==
    \E dir \in {"domain", "application", "infrastructure", "interface", "api"} :
        UnderDir(path, dir)

\* C26: a Code node has the key layer in its metadata exactly if its path
\* contains a recognized layer segment. (The Code node of a TypeScript file
\* outside every layer has the key, with the empty string as its value.)
C26_LayerKeyIffInLayer ==
    \A id \in DOMAIN nodes :
        nodes[id].Kind = NodeKindCode => (HasLayer(nodes[id]) <=> InSomeLayer(id))

\* the patterns in the order the claim gives them, with their layers
LayerPatterns ==
    <<[dir |-> "domain", layer |-> "domain"],
      [dir |-> "application", layer |-> "application"],
      [dir |-> "infrastructure", layer |-> "infrastructure"],
      [dir |-> "interface", layer |-> "interface"],
      [dir |-> "api", layer |-> "interface"]>>

\* the layer of the first pattern that occurs in the path, "" when none does
FirstLayer(path) ==
    LET hits == {i \in 1..Len(LayerPatterns) : UnderDir(path, LayerPatterns[i].dir)}
    IN  IF hits = {} THEN ""
        ELSE LayerPatterns[CHOOSE i \in hits : \A j \in hits : i <= j].layer

\* C27: the layer AnalyzeFile records for a file is that of the first pattern,
\* in the order domain, application, infrastructure, interface or api, that
\* occurs in its path, and "" when none occurs; a file is given no node only
\* when no pattern occurs and its language is unknown.
C27_FirstPatternWins ==
    /\ \A id \in DOMAIN nodes :
           nodes[id].Kind = NodeKindCode =>
               HasLayer(nodes[id]) /\ LayerOf(nodes[id]) = FirstLayer(id)
    /\ lastOp.op = "AnalyzeFile" =>
           \/ lastOp.id \in DOMAIN nodes
           \/ FirstLayer(lastOp.id) = "" /\ DetectLanguage(lastOp.id) = LangUnknown

\* both files whose paths hold /infrastructure/ and /domain/ have been
\* analysed, and both are domain
C27_Witness ==
    /\ lastOp.op = "AnalyzeFile"
    /\ {InfrastructureDomainFile, DomainInfrastructureFile, TopLevelFile, ApiFile}
           \subseteq DOMAIN nodes
    /\ LayerOf(nodes[InfrastructureDomainFile]) = "domain"
    /\ LayerOf(nodes[DomainInfrastructureFile]) = "domain"
    /\ LayerOf(nodes[TopLevelFile]) = ""
    /\ LayerOf(nodes[ApiFile]) = "interface"

----------------------------------------------------------------------------
(* Properties of import resolution (SpecResolve)                           *)

\* the directory and every directory above it, "." last
Ancestors(dir) == {<<".">>} \cup {SubSeq(dir, 1, k) : k \in 1..Len(dir)}

\* how far below "." a directory lies
Depth(dir) == IF dir = <<".">> THEN 0 ELSE Len(dir)

\* the ancestors that have an entry in the cache
CachedAbove(cache, dir) == Ancestors(dir) \cap DOMAIN cache

\* the deepest of them
NearestCached(cache, dir) ==
    CHOOSE d \in CachedAbove(cache, dir) : \A e \in CachedAbove(cache, dir) : Depth(e) <= Depth(d)

\* the target ids an import of a TypeScript file may be given: the raw import
\* when no ancestor has a cached tsconfig or no pattern of the nearest one
\* with a target matches, else what a matching pattern of the nearest makes
TSTargets(fs, path, importStr) ==
    IF CachedAbove(tsConfigs(fs), Dir(path)) = {} THEN {importStr}
    ELSE LET dir == NearestCached(tsConfigs(fs), Dir(path))
             config == tsConfigs(fs)[dir]
             matching == {pt \in DOMAIN config.Paths :
                              MatchesPattern(importStr, pt) /\ config.Paths[pt] # <<>>}
             base == IF config.BaseUrl = <<>> THEN <<".">> ELSE config.BaseUrl
         IN  IF matching = {} THEN {importStr}
             ELSE {Join(dir, base \o TrimStar(config.Paths[pt][1])
                                  \o SubSeq(importStr, Len(TrimStar(pt)) + 1, Len(importStr))) :
                       pt \in matching}

\* the same for an import of a Go file and the nearest cached go.mod
GoTargets(fs, path, importStr) ==
    IF CachedAbove(goMods(fs), Dir(path)) = {} THEN {importStr}
    ELSE LET dir == NearestCached(goMods(fs), Dir(path))
             module == goMods(fs)[dir].Module
         IN  IF Len(importStr) >= Len(module) /\ SubSeq(importStr, 1, Len(module)) = module
             THEN {Join(dir, SubSeq(importStr, Len(module) + 1, Len(importStr)))}
             ELSE {importStr}

Targets(fs, path, importStr) ==
    IF DetectLanguage(path) = LangGo THEN GoTargets(fs, path, importStr)
                                     ELSE TSTargets(fs, path, importStr)

\* the step is a call of AnalyzeFile on a source file
AnalysesSource ==
    /\ lastOp' # lastOp
    /\ lastOp'.op = "AnalyzeFile"
    /\ Base(lastOp'.id) \notin {"tsconfig.json", "go.mod"}

\* C28: AnalyzeFile on a source file returns no error, and for each import
\* that is not relative it adds the edge to the raw import string when no
\* ancestor directory has a cached manifest or nothing in the nearest one
\* matches, and otherwise an edge made from the nearest cached manifest; it
\* adds no other edge, and each step of the upward walk reaches a directory
\* nearer to "." until it stops there.
C28_DanglingOrNearest ==
    [][AnalysesSource =>
         LET path == lastOp'.id
             imports == SeqToSet(files'[path].imports)
         IN  /\ lastOp'.acted
             /\ \A imp \in imports :
                    \E t \in Targets(files, path, imp) :
                        Edge(path, t, EdgeTypeImports) \in Entries(edges')
             /\ \A imp \in imports :
                    Targets(files, path, imp) = {imp} =>
                        Edge(path, imp, EdgeTypeImports) \in Entries(edges')
             /\ Entries(edges') \ Entries(edges) \subseteq
                    {Edge(path, t, EdgeTypeImports) :
                         t \in UNION {Targets(files, path, imp) : imp \in imports}}
             /\ \A d \in Ancestors(Dir(path)) :
                    Dir(d) = d \/ Depth(Dir(d)) < Depth(d)]_vars

\* tsconfig.json and src/tsconfig.json are both cached and the file under src
\* was analysed last: its import went through src/tsconfig.json; the Go file
\* was analysed under a go.mod of another module and has a dangling edge
C28_Witness ==
    /\ lastOp.op = "AnalyzeFile"
    /\ lastOp.id = ApplicationFile
    /\ {RootTSConfig, SrcTSConfig, RootGoMod} \subseteq DOMAIN files
    /\ Entries(edges) =
           {Edge(ApplicationFile, <<"src", "lib", "domain", "x">>, EdgeTypeImports),
            Edge(GoFile, ModuleImport, EdgeTypeImports)}

\* C29: with the caches as they are, resolveImport gives a source path and an
\* import string the same target id whatever the order in which the range
\* over the patterns of the tsconfig visits them. (A tsconfig with two
\* matching patterns gives two.)
C29_ResolveDeterministic ==
    \A in \in SourceInputs :
        \A o1, o2 \in Orderings(AllPatterns(files)) :
            \A i \in 1..Len(in[2].imports) :
                LET a == Caches(tsConfigs(files), goMods(files))
                    lang == DetectLanguage(in[1])
                IN  resolveImport(a, o1, in[1], in[2].imports[i], lang)
                        = resolveImport(a, o2, in[1], in[2].imports[i], lang)

\* every pattern of the model, for fixing one order of visit
PatternUniverse == {<<"*">>, <<"@lib", "*">>, <<"@app", "*">>}

\* C30: from the state reached, AnalyzeFile on two distinct paths gives the
\* same node ids and the same edges in either order. (A source file analysed
\* before its manifest keeps the edge to the raw import string.)
C30_OrderIrrelevant ==
    \A x, y \in ResolveInputs :
        x[1] # y[1] =>
            \A order \in Orderings(PatternUniverse) :
                LET st == [g |-> Cur, files |-> files]
                    xy == AnalyzerStep(AnalyzerStep(st, order, x[1], x[2]), order, y[1], y[2])
                    yx == AnalyzerStep(AnalyzerStep(st, order, y[1], y[2]), order, x[1], x[2])
                IN  /\ DOMAIN xy.g.nodes = DOMAIN yx.g.nodes
                    /\ Entries(xy.g.edges) = Entries(yx.g.edges)

----------------------------------------------------------------------------
(* Properties of the Gherkin reader (SpecGherkin)                          *)

\* the members of a set of numbers, ascending
Ascending(S) ==
    CHOOSE seq \in [1..Cardinality(S) -> S] :
        \A i, j \in 1..Cardinality(S) : i < j => seq[i] < seq[j]

\* the numbers of the lines of kind k
LinesOf(lines, k) == {i \in 1..Len(lines) : lines[i].k = k}

\* the step lines after the header at line h and before the next header
StepsUnder(lines, h) ==
    LET later == {i \in LinesOf(lines, "Scenario") : i > h}
        last == IF later = {} THEN Len(lines)
                ELSE (CHOOSE i \in later : \A j \in later : i <= j) - 1
        at == Ascending({i \in LinesOf(lines, "step") : h < i /\ i <= last})
    IN  [n \in 1..Len(at) |-> lines[at[n]].words]

\* C31: ParseGherkin returns one scenario per Scenario: line, in file order,
\* with the name and the 1-based line number of that line and, as its steps,
\* the step lines between it and the next Scenario: line, in order; step lines
\* before the first Scenario: line are in no scenario. (Not so for a text with
\* a line longer than the scanner's buffer: the lines after it are not read.)
C31_StepsUnderLatestHeader ==
    lastOp.op = "ParseGherkin" =>
        LET lines == files[FeatureFile].lines
            headers == Ascending(LinesOf(lines, "Scenario"))
            scenarios == lastOp.res.out.Scenarios
        IN  /\ Len(scenarios) = Len(headers)
            /\ \A n \in 1..Len(headers) :
                   /\ scenarios[n].Name = lines[headers[n]].name
                   /\ scenarios[n].Line = headers[n]
                   /\ scenarios[n].Steps = StepsUnder(lines, headers[n])

----------------------------------------------------------------------------
(* Properties of the ignore rule (SpecIgnore)                              *)

\* a segment of the path, its basename included, is an excluded directory
\* name, .git or the persistence directory
SegmentExcluded(path) ==
    \E i \in 1..Len(path) : path[i] \in ExcludedDirs \cup {".git", PersistenceDir}

\* the loop takes the oldest event off the queue
Receives == events.queue # <<>> /\ events'.queue = Tail(events.queue)

\* C32: the loop leaves an event alone (no AnalyzeFile, no RemoveNode) exactly
\* if a segment of its path is an excluded directory name, .git or the
\* persistence directory. (strings.Contains on the whole path also ignores
\* rebuild.ts, and .hexanorm is not among the names tested.)
C32_IgnoredIffSegmentExcluded ==
    [][Receives =>
         LET event == Head(events.queue)
         IN  /\ SegmentExcluded(event.Name) =>
                    /\ lastOp' = Returned(event.Op, event.Name, FALSE, <<>>, NoRes)
                    /\ nodes' = nodes /\ edges' = edges /\ store' = store
             /\ ~SegmentExcluded(event.Name) =>
                    /\ lastOp'.acted
                    /\ event.Op \in {OpCreate, OpWrite} => event.Name \in DOMAIN files'
                    /\ event.Op = OpRemove => event.Name \notin DOMAIN nodes']_vars

----------------------------------------------------------------------------
(* SpecCrawl: NewServer on a tree with files under excluded directories:   *)
(* the crawl of scanDirectory, then the watcher on the same tree           *)

VendorFile == <<"vendor", "domain", "a.ts">>

\* filepath.Walk over the paths of the crawled trees: lexical order
CrawlOrder == <<IgnoredFile, DomainFile, VendorFile>>

CrawlPaths == SeqToSet(CrawlOrder)

\* the trees the server may be started on
CrawlTrees ==
    {[p \in present |-> File(NoContent)] : present \in SUBSET CrawlPaths}

\* NewStore and NewGraph on a fresh persistence directory, the tree as found
InitCrawl ==
    /\ nodes = EmptyMap
    /\ edges = EmptyMap
    /\ reverseEdges = EmptyMap
    /\ store = EmptyStore(TRUE)
    /\ mu = NoTask
    /\ pc = [t \in Tasks |-> "idle"]
    /\ pending = [t \in Tasks |-> NoCall]
    /\ files = EmptyMap
    /\ disk \in CrawlTrees
    /\ events = NoEvents
    /\ lastOp = Returned("NewGraph", NoId, TRUE, <<"LoadAll">>, NoRes)

\* NewServer has not run scanDirectory yet
Fresh == lastOp.op = "NewGraph"

\* NewServer: scanDirectory(rootDir, analyzer)
Crawl ==
    /\ Fresh
    /\ \E g \in {scanDirectory(Cur, disk, CrawlOrder)} :
           /\ Install(g)
           /\ lastOp' = Returned("scanDirectory", NoId, TRUE, g.calls, NoRes)
    /\ files' = [p \in {q \in DOMAIN disk : ~Skipped(q)} |-> disk[p].content]
    /\ UNCHANGED <<mu, pc, pending, disk, events>>

NextCrawl ==
    \/ Crawl
    \/ ~Fresh /\ Start
    \/ ~Fresh /\ \E path \in CrawlPaths : FsCreate(path, File(NoContent))
    \/ ~Fresh /\ \E path \in CrawlPaths : FsWrite(path, NoContent)
    \/ ~Fresh /\ \E path \in CrawlPaths : FsRemove(path)
    \/ LoopEvent(TRUE)

SpecCrawl == InitCrawl /\ [][NextCrawl]_vars

\* the path lies under a directory of the configuration's excluded_dirs
UnderExcluded(path) == \E i \in 1..(Len(path) - 1) : path[i] \in ExcludedDirs

\* C33: no file under an excluded directory is analysed, by the crawl or by
\* the watcher, and the graph holds no node whose Remove event the watcher
\* would ignore. (The crawl skips node_modules and .git only: it analyses
\* vendor/domain/a.ts, and the watcher ignores every event for that path.)
C33_ExclusionsAgree ==
    /\ \A path \in DOMAIN files : ~UnderExcluded(path)
    /\ \A id \in DOMAIN nodes : ~shouldIgnore(id)

----------------------------------------------------------------------------
(* SpecDerived: the loop on a feature file and a file of step definitions, *)
(* and FindViolations                                                      *)

DerivedEntries(path) ==
    IF path = FeatureFile THEN {File(c) : c \in FeatureContents}
                          ELSE {File(c) : c \in StepsContents}

NextDerived ==
    \/ \E path \in {FeatureFile, StepsFile} : \E entry \in DerivedEntries(path) :
           FsCreate(path, entry)
    \/ \E path \in {FeatureFile, StepsFile} : FsRemove(path)
    \/ Start
    \/ LoopEvent(TRUE)
    \/ FindViolations

SpecDerived == Init /\ [][NextDerived]_vars

DerivedKinds == {NodeKindStepDefinition, NodeKindGherkinFeature, NodeKindGherkinScenario}

\* the nodes derived from the content of a file
DerivedNodes == {id \in DOMAIN nodes : nodes[id].Kind \in DerivedKinds}

\* C34: no event the loop handles takes a StepDefinition, GherkinFeature or
\* GherkinScenario node out of the graph; a Remove event for a file takes out
\* the file's node and the edges that name it, the calls edges of its step
\* definitions among them, and nothing else; and FindViolations reports no
\* drift for a step that the pattern of a StepDefinition node matches, the
\* file that defined it removed or not.
C34_DerivedNodesOutlive ==
    /\ [][Receives =>
            /\ \A id \in DerivedNodes : id \in DOMAIN nodes' /\ nodes'[id].Kind = nodes[id].Kind
            /\ Head(events.queue).Op = OpRemove =>
                   LET path == Head(events.queue).Name
                   IN  /\ path \notin DOMAIN nodes'
                       /\ Entries(edges') =
                              {e \in Entries(edges) :
                                   path \notin DOMAIN nodes \/ path \notin {e.SourceID, e.TargetID}}]_vars
    /\ [](lastOp.op = "FindViolations" =>
            \A id \in DOMAIN nodes :
                nodes[id].Kind = NodeKindGherkinScenario =>
                    \A step \in StepsOf(nodes[id]) :
                        SomePatternMatches(step) => ~DriftReported(nodes[id], step))

\* the file of step definitions was analysed and then removed: its node and
\* the calls edge are gone, the StepDefinition node is there, and
\* FindViolations reports nothing for the step it matches
C34_Witness ==
    /\ lastOp.op = "FindViolations"
    /\ lastOp.res.violations = <<>>
    /\ StepsFile \notin DOMAIN nodes
    /\ StepsFile \notin DOMAIN disk
    /\ Entries(edges) = {}
    /\ <<"stepdef", "", "they">> \in DOMAIN nodes
    /\ <<"gh:scen:", "S1">> \in DOMAIN nodes
    /\ StepsOf(nodes[<<"gh:scen:", "S1">>]) = {StepLeave}

----------------------------------------------------------------------------
(* SpecAssert: source files, a feature file and step definitions analysed  *)
(* into a Store-backed Graph, requirements linked under ids of every kind, *)
(* the process restarted on the same Store, and FindViolations             *)

Scenario1 == <<"gh:scen:", "S1">>

NextAssert ==
    \/ \E content \in FeatureContents : AnalyzeFile(FeatureFile, content)
    \/ AnalyzeFile(StepsFile, Content(<<>>, <<StepDefFound("they", "When", 2)>>, <<>>))
    \/ AnalyzeFile(DomainFile, Content(<<ImportInfrastructure>>, <<>>, <<>>))
    \/ AnalyzeFile(InfrastructureBare, NoContent)
    \/ \E reqID \in {Scenario1, InfrastructureBare} :
           LinkRequirement(DomainFile, reqID)
    \/ Reopen
    \/ FindViolations

SpecAssert == Init /\ [][NextAssert]_vars

\* the scenarios whose typed read of "steps" fails
Unread == {id \in filterNodes(Cur, NodeKindGherkinScenario) : ~HasSteps(nodes[id])}

\* C35: on every graph the program builds, nodes decoded from the Store and
\* nodes created by link_requirement included, the type assertions that
\* FindViolations makes without a test succeed, so the call returns; and a
\* scenario whose typed read of its steps fails gets no drift violation.
C35_FindViolationsNeverPanics ==
    /\ ~FindViolationsPanics(Cur)
    /\ lastOp.op = "FindViolations" =>
           /\ lastOp.acted
           /\ \A i \in 1..Len(lastOp.res.violations) :
                  LET v == lastOp.res.violations[i]
                  IN  v.Kind = ViolationKindBDDDrift => v.Message[3] \notin Unread

\* FindViolations returned on a graph decoded from the Store: the scenario's
\* steps are a []interface{} and its line a float64, its step has no
\* definition, and a node created by link_requirement is the target of the
\* import of a domain file
C35_Witness ==
    /\ lastOp.op = "FindViolations"
    /\ lastOp.acted
    /\ Scenario1 \in Unread
    /\ nodes[Scenario1].Properties.kv["line"].t = "float64"
    /\ ~Matched(Cur, cleanStepText(nodes[Scenario1].Properties.kv["steps"].l[1]))
    /\ DomainFile \in DOMAIN nodes
    /\ HasLayer(nodes[DomainFile])
    /\ InfrastructureBare \in DOMAIN nodes
    /\ nodes[InfrastructureBare].Kind = NodeKindRequirement
    /\ Edge(DomainFile, InfrastructureBare, EdgeTypeImports) \in Entries(edges)

----------------------------------------------------------------------------
(* Properties of the diagnostics across a restart (SpecBDD)                *)

\* the bdd-drift violations FindViolations gives on g
DriftOn(g) ==
    SeqToSet(DriftViolations(g, CHOOSE o \in Orderings(filterNodes(g, NodeKindGherkinScenario)) : TRUE))

\* the executes edges of g after IndexStepDefinitions on it
ExecutesOn(g) ==
    LET scOrder == CHOOSE o \in Orderings(filterNodes(g, NodeKindGherkinScenario)) : TRUE
        sdOrder == CHOOSE o \in Orderings(filterNodes(g, NodeKindStepDefinition)) : TRUE
    IN  {e \in Entries(AnalyzerIndexStepDefinitions(g, scOrder, sdOrder).edges) :
             e.Type = EdgeTypeExecutes}

\* every scenario node of the graph was built by AnalyzeFile in this process
BuiltHere ==
    \A id \in filterNodes(Cur, NodeKindGherkinScenario) : HasSteps(nodes[id])

\* C36 as claimed: when the process restarts on the Store of a graph that
\* AnalyzeFile built, FindViolations on the graph loaded gives the bdd-drift
\* violations it gave before the restart, and IndexStepDefinitions on it
\* leaves the executes edges it would have left before.
C36_DiagnosticsSurviveRestart ==
    [][(BuiltHere /\ lastOp'.op = "NewGraph") =>
           /\ DriftOn(Cur') = DriftOn(Cur)
           /\ ExecutesOn(Cur') = ExecutesOn(Cur)]_vars

----------------------------------------------------------------------------
(* SpecScenario: two feature files analysed in any order with scenarios of *)
(* the same and of different names, and FindViolations                     *)

AdminFeatureFile == <<"features", "admin", "login.feature">>

ScenarioContents ==
    {Content(<<>>, <<>>, <<Line("Feature", "Login", <<>>), Line("Scenario", "S1", <<>>),
                          Line("step", "", StepUser)>>),
     Content(<<>>, <<>>, <<Line("Feature", "Login", <<>>), Line("Scenario", "S1", <<>>),
                          Line("step", "", StepLeave)>>),
     Content(<<>>, <<>>, <<Line("Feature", "Login", <<>>), Line("Scenario", "a b", <<>>),
                          Line("step", "", StepUser), Line("Scenario", "a_b", <<>>),
                          Line("step", "", StepLeave)>>)}

NextScenario ==
    \/ \E path \in {FeatureFile, AdminFeatureFile}, content \in ScenarioContents :
           AnalyzeFile(path, content)
    \/ FindViolations

SpecScenario == Init /\ [][NextScenario]_vars

\* the feature files analysed so far
FeatureFiles == {path \in DOMAIN files : Ext(Base(path)) = ".feature"}

\* the graph holds a GherkinScenario node for the scenario sc of the file path
Stored(path, sc) ==
    \E id \in filterNodes(Cur, NodeKindGherkinScenario) :
        LET kv == nodes[id].Properties.kv
        IN  /\ kv["name"].s = sc.Name
            /\ kv["file"].l = path
            /\ kv["line"].n = sc.Line
            /\ kv["steps"].l = sc.Steps

\* C37 as claimed: scenarios that differ in feature file or in name have
\* different node ids, so every scenario of every feature file analysed keeps
\* the node made from it (name, file, line, steps), whatever other file or
\* other scenario was analysed after it.
C37_ScenarioIdentityInjective ==
    \A path \in FeatureFiles :
        LET scenarios == ParseGherkin(files[path]).Scenarios
        IN  \A i \in 1..Len(scenarios) :
                (\A j \in 1..Len(scenarios) : j # i => scenarios[j].Name # scenarios[i].Name)
                    => Stored(path, scenarios[i])

====
